---- MODULE Spec2Model ----
(***************************************************************************)
(* jumbo.cli: AddGoalCommandHandler (application/work/goals/add), the      *)
(* orchestration of "add goal with optional chaining" over an event store, *)
(* an event bus with a projector, and the Goal aggregate; and the project  *)
(* initialisation configurers (Copilot, Cursor, Gemini) with the Gemini    *)
(* settings merger.                                                        *)
(*                                                                         *)
(* One execution of execute() is a record of `cmds`; its `pc` is the       *)
(* await it is suspended at, so executions interleave exactly at the       *)
(* awaits of the handler.  The collaborators behind the ports (event       *)
(* store, event bus and projector, finder, Goal aggregate) are modelled    *)
(* from their contracts.  Event timestamps are left out: no step of the    *)
(* handler reads them.                                                     *)
(*                                                                         *)
(* A configure() call is the record `run`; each awaited ensure step is one *)
(* action on the project's files, in which one fs call may throw.          *)
(***************************************************************************)
EXTENDS Naturals, Sequences, FiniteSets, TLC

\* ------------------------------------------------------------ bounds
\* Number of execute() calls in one behaviour of Spec.
MaxCmds == 2
\* Number of execute() calls that may be suspended at an await at once.
MaxInFlight == 2
\* Number of execute() calls in one behaviour of SpecSeq, one after the other.
MaxSeqCmds == 3
\* Number of execute() calls that chain to the same goal in SpecRace.
MaxRacers == 2
\* Number of configure() calls in one behaviour of SpecSetup.
MaxConfigures == 1
\* Number of configure() calls of one configurer in a behaviour of SpecRepeat.
MaxRepeats == 2
\* Number of mergeSettings calls with one argument in a behaviour of SpecMerge.
MaxMerges == 2
\* Longest hooks.SessionStart list, and longest hooks list of one matcher, of
\* the settings SpecMerge draws.
MaxMatchers == 2
MaxHooks == 2
\* Longest list of views in a solution context.
MaxViews == 2
\* Number of frames of the banner animation, and of content lines passed.
MaxFrames == 3
MaxContent == 2

\* ------------------------------------------------------------ values
\* JavaScript `undefined`, and the empty string (both falsy).
Undef == "undefined"
Empty == ""
\* An id no execute() ever generated ("goal_nonexistent").
Ghost == "goal_nonexistent"

\* randomUUID(): the n-th call returns a fresh identifier.
UuidNames == <<"goal_1", "goal_2", "goal_3", "goal_4", "goal_5", "goal_6">>
randomUUID(n) == UuidNames[n]

\* The most calls of randomUUID() in a behaviour of any specification.
MaxIds ==
    LET raced == MaxRacers + 1
        most == IF MaxCmds > MaxSeqCmds THEN MaxCmds ELSE MaxSeqCmds
    IN IF raced > most THEN raced ELSE most

GoalIds == {randomUUID(n) : n \in 1..MaxIds} \cup {Ghost}

Truthy(v) == v \notin {Undef, Empty}

RequiredFields == {"objective", "successCriteria", "scopeIn", "scopeOut", "boundaries"}
ContextFields == {"relevantInvariants", "relevantGuidelines", "relevantDependencies",
                  "relevantComponents", "architecture", "filesToBeCreated",
                  "filesToBeChanged"}
EmbeddedFields == ContextFields \cup {"nextGoalId"}
CommandFields == RequiredFields \cup EmbeddedFields \cup {"previousGoalId"}

\* A value a caller may pass for each field (distinct per field).
Sample == [objective |-> "ship", successCriteria |-> "green", scopeIn |-> "in",
           scopeOut |-> "out", boundaries |-> "bounds",
           relevantInvariants |-> "inv", relevantGuidelines |-> "guide",
           relevantDependencies |-> "dep", relevantComponents |-> "comp",
           architecture |-> "arch", filesToBeCreated |-> "new",
           filesToBeChanged |-> "mod"]

\* AddGoalCommand with the required fields in `missing` left out, the context
\* fields in `given` supplied, and the two link fields as stated.
AddGoalCommand(missing, given, next, prev) ==
    [f \in CommandFields |->
        IF f = "nextGoalId" THEN next
        ELSE IF f = "previousGoalId" THEN prev
        ELSE IF f \in RequiredFields THEN (IF f \in missing THEN Undef ELSE Sample[f])
        ELSE (IF f \in given THEN Sample[f] ELSE Undef)]

\* ------------------------------------------------------------ Goal aggregate
\* domain/work/goals/Goal: a pure state machine over one stream's events.
GoalAddedEventType == "GoalAddedEvent"
GoalUpdatedEventType == "GoalUpdatedEvent"

StateFields == RequiredFields \cup EmbeddedFields \cup {"previousGoalId"}

\* The embedded-context argument left out (undefined).
NoContext == [present |-> FALSE, fields |-> [f \in EmbeddedFields |-> Undef]]

\* Goal.create(id): identity only, no events yet.
GoalCreate(id) ==
    [id |-> id, version |-> 0, corrupt |-> FALSE,
     fields |-> [f \in StateFields |-> Undef]]

\* Goal.add validates that every required field is present.
MissingRequired(objective, successCriteria, scopeIn, scopeOut, boundaries) ==
    {objective, successCriteria, scopeIn, scopeOut, boundaries} \cap {Undef} # {}

\* Goal.add: exactly one event, version 1 of the aggregate's own stream.
GoalAdd(goal, objective, successCriteria, scopeIn, scopeOut, boundaries, context) ==
    [streamId |-> goal.id, type |-> GoalAddedEventType, version |-> 1,
     payload |-> [objective |-> objective, successCriteria |-> successCriteria,
                  scopeIn |-> scopeIn, scopeOut |-> scopeOut,
                  boundaries |-> boundaries, embeddedContext |-> context]]

\* Goal.update: the next version of the aggregate's stream; omitted fields stay
\* undefined in the payload.
GoalUpdate(goal, objective, successCriteria, scopeIn, scopeOut, boundaries, context) ==
    [streamId |-> goal.id, type |-> GoalUpdatedEventType, version |-> goal.version + 1,
     payload |-> [objective |-> objective, successCriteria |-> successCriteria,
                  scopeIn |-> scopeIn, scopeOut |-> scopeOut,
                  boundaries |-> boundaries, embeddedContext |-> context]]

\* The value an event carries for a field of the aggregate (undefined if none).
PayloadValue(event, f) ==
    IF f \in RequiredFields THEN event.payload[f]
    ELSE IF f \in EmbeddedFields /\ event.payload.embeddedContext.present
         THEN event.payload.embeddedContext.fields[f]
    ELSE Undef

\* Faulty variant: every event is applied, whatever its type and version.
GoalApplyUnchecked(goal, event) ==
    [goal EXCEPT
        !.version = event.version,
        !.fields = [f \in StateFields |->
                      IF PayloadValue(event, f) # Undef
                      THEN PayloadValue(event, f)
                      ELSE goal.fields[f]]]

\* One step of the fold: an added event sets every field, an updated event
\* only the fields it carries; an unknown type or a version out of order
\* corrupts the history.
GoalApply(goal, event) ==
    IF goal.corrupt \/ event.version # goal.version + 1
       \/ event.type \notin {GoalAddedEventType, GoalUpdatedEventType}
    THEN [goal EXCEPT !.corrupt = TRUE]
    ELSE [goal EXCEPT
            !.version = event.version,
            !.fields = [f \in StateFields |->
                          IF event.type = GoalAddedEventType
                          THEN PayloadValue(event, f)
                          ELSE IF PayloadValue(event, f) # Undef
                               THEN PayloadValue(event, f)
                               ELSE goal.fields[f]]]

\* Faulty variant: the newest event is applied first.
RECURSIVE GoalFoldNewestFirst(_, _)
GoalFoldNewestFirst(goal, history) ==
    IF history = <<>> THEN goal
    ELSE GoalApply(GoalFoldNewestFirst(goal, Tail(history)), Head(history))

RECURSIVE GoalFold(_, _)
GoalFold(goal, history) ==
    IF history = <<>> THEN goal
    ELSE GoalFold(GoalApply(goal, Head(history)), Tail(history))

\* Goal.rehydrate(id, history): left fold of the history from the scaffold.
GoalRehydrate(id, history) == GoalFold(GoalCreate(id), history)

\* ------------------------------------------------------------ event store
\* Faulty variant: the store does not check the expected version.
VersionConflictUnchecked(store, event) == FALSE

\* append(event): optimistic concurrency on the stream's length.
VersionConflict(store, event) == event.version # Len(store[event.streamId]) + 1

\* Faulty variant: the append is acknowledged and the event is not stored.
StoreAppendDrops(store, event) == store

\* Faulty variant: the stream is rewritten with the new event alone.
StoreAppendReplaces(store, event) ==
    [store EXCEPT ![event.streamId] = <<event>>]

StoreAppend(store, event) ==
    [store EXCEPT ![event.streamId] = Append(@, event)]

\* readStream(id): the empty sequence for an unknown stream.
StoreReadStream(store, id) == IF id \in DOMAIN store THEN store[id] ELSE <<>>

\* ------------------------------------------------------------ projector
\* The goal view a projector keeps for the finder.
NoView == [present |-> FALSE, nextGoalId |-> Undef]

ProjectorApply(views, event) ==
    IF event.type = GoalAddedEventType
    THEN [views EXCEPT ![event.streamId] =
            [present |-> TRUE, nextGoalId |-> PayloadValue(event, "nextGoalId")]]
    ELSE IF views[event.streamId].present /\ PayloadValue(event, "nextGoalId") # Undef
    THEN [views EXCEPT ![event.streamId].nextGoalId = PayloadValue(event, "nextGoalId")]
    ELSE views

\* findById(id): the summary, or null when absent.
FindById(views, id) == IF id \in DOMAIN views THEN views[id] ELSE NoView

\* ------------------------------------------------------------ state
VARIABLES
    streams,     \* event store: stream id -> the events appended, in order
    log,         \* every successful append, in commit order, with its command
    published,   \* every event handed to eventBus.publish, with its command
    goalViews,   \* read model behind the finder: goal id -> view
    deps,        \* the optional constructor arguments that were injected
    cmds,        \* the executions of execute(), in the order they were called
    files,       \* project root: path -> whether the file exists, and its content
    dirs,        \* project root: the directories that exist
    backups,     \* the settings.json.backup.<time> files, oldest first
    texts,       \* what the texts of AgentInstructions contain
    warnings,    \* the console.warn calls, in order: the step that warned
    run,         \* the configure() call in progress, or the last one
    configured,  \* number of configure() calls so far
    merge,       \* the direct calls of mergeSettings: their argument, and each call
    solution,    \* the solution context the reader returns, and the isUnprimed() call
    banner       \* the terminal, the arguments of showAnimatedBanner and what it wrote

\* The state of the project-initialisation configurers.
setupVars == <<files, dirs, backups, texts, warnings, run, configured, merge, solution,
               banner>>

vars == <<streams, log, published, goalViews, deps, cmds, setupVars>>

\* ------------------------------------------------------------ handler
\* Faulty variant: nextGoalId is not among the fields tested.
hasEmbeddedContextForgetsLink(command) ==
    \/ Truthy(command.relevantInvariants)
    \/ Truthy(command.relevantGuidelines)
    \/ Truthy(command.relevantDependencies)
    \/ Truthy(command.relevantComponents)
    \/ Truthy(command.architecture)
    \/ Truthy(command.filesToBeCreated)
    \/ Truthy(command.filesToBeChanged)

\* AddGoalCommandHandler.execute: `hasEmbeddedContext`.
hasEmbeddedContext(command) ==
    \/ Truthy(command.relevantInvariants)
    \/ Truthy(command.relevantGuidelines)
    \/ Truthy(command.relevantDependencies)
    \/ Truthy(command.relevantComponents)
    \/ Truthy(command.architecture)
    \/ Truthy(command.filesToBeCreated)
    \/ Truthy(command.filesToBeChanged)
    \/ Truthy(command.nextGoalId)

\* AddGoalCommandHandler.execute: `embeddedContext`.
embeddedContext(command) ==
    IF hasEmbeddedContext(command)
    THEN [present |-> TRUE,
          fields |-> [relevantInvariants |-> command.relevantInvariants,
                      relevantGuidelines |-> command.relevantGuidelines,
                      relevantDependencies |-> command.relevantDependencies,
                      relevantComponents |-> command.relevantComponents,
                      architecture |-> command.architecture,
                      filesToBeCreated |-> command.filesToBeCreated,
                      filesToBeChanged |-> command.filesToBeChanged,
                      nextGoalId |-> command.nextGoalId]]
    ELSE NoContext

\* Goal.add throws for this command.
AddRejected(command) ==
    MissingRequired(command.objective, command.successCriteria, command.scopeIn,
                    command.scopeOut, command.boundaries)

\* Faulty variant: scopeIn and scopeOut are passed in each other's place.
AddedEventSwapsScope(goalId, command) ==
    GoalAdd(GoalCreate(goalId), command.objective, command.successCriteria,
            command.scopeOut, command.scopeIn, command.boundaries,
            embeddedContext(command))

\* The event `goal.add(...)` returns in execute.
AddedEvent(goalId, command) ==
    GoalAdd(GoalCreate(goalId), command.objective, command.successCriteria,
            command.scopeIn, command.scopeOut, command.boundaries,
            embeddedContext(command))

\* `if (command.previousGoalId)`.
ChainingRequested(command) == Truthy(command.previousGoalId)

\* Faulty variant: the guard forgets the reader.
ChainingConfiguredForgetsReader(d) == d.updateEventWriter /\ d.goalReader

\* The guard of updatePreviousGoalNextGoalId on its three collaborators.
ChainingConfigured(d) == d.updateEventWriter /\ d.updateEventReader /\ d.goalReader

\* Faulty variant: the update's context object carries no nextGoalId.
UpdateContextLeavesLinkOut(newGoalId) ==
    [present |-> TRUE, fields |-> [f \in EmbeddedFields |-> Undef]]

\* `previousGoal.update(undefined x5, { nextGoalId: newGoalId })` on the goal
\* rehydrated from `history`.
UpdateContext(newGoalId) ==
    [present |-> TRUE,
     fields |-> [f \in EmbeddedFields |-> IF f = "nextGoalId" THEN newGoalId ELSE Undef]]

\* Faulty variant: the previous goal is linked to itself instead of to the new goal.
UpdateEventLinksPrevious(previousGoalId, history, newGoalId) ==
    GoalUpdate(GoalRehydrate(previousGoalId, history),
               Undef, Undef, Undef, Undef, Undef, UpdateContext(previousGoalId))

\* Faulty variant: the update carries no link.
UpdateEventLinksNothing(previousGoalId, history, newGoalId) ==
    GoalUpdate(GoalRehydrate(previousGoalId, history),
               Undef, Undef, Undef, Undef, Undef, NoContext)

\* Faulty variant: the new goal's id is also passed as the objective.
UpdateEventSetsObjective(previousGoalId, history, newGoalId) ==
    GoalUpdate(GoalRehydrate(previousGoalId, history),
               newGoalId, Undef, Undef, Undef, Undef, UpdateContext(newGoalId))

UpdateEvent(previousGoalId, history, newGoalId) ==
    GoalUpdate(GoalRehydrate(previousGoalId, history),
               Undef, Undef, Undef, Undef, Undef, UpdateContext(newGoalId))

\* ------------------------------------------------------------ positions
InFlight(e) == e.pc \notin {"done", "failed"}
NumInFlight == Cardinality({c \in DOMAIN cmds : InFlight(cmds[c])})

\* One call of a collaborator: the port's operation, the goal id it is about,
\* the type of the event handed over ("none" for a read) and how it ended.
Call(op, id, type, result) == [op |-> op, id |-> id, type |-> type, result |-> result]

\* An execution after a call that ended `result` and leaves it at `pc`; a
\* call that threw leaves its error (and the id the error carries).
After(e, call, pc, error, errorId) ==
    [e EXCEPT !.calls = Append(@, call), !.pc = pc,
              !.error = IF pc = "failed" THEN error ELSE @,
              !.errorId = IF pc = "failed" THEN errorId ELSE @]

\* What append(event) does when the store answers `io`.
AppendOutcome(store, event, io) ==
    IF ~io THEN "StoreUnavailable"
    ELSE IF VersionConflict(store, event) THEN "ConcurrencyConflict"
    ELSE "ok"

\* What publish(event) does: every subscriber ran, the projector threw, or a
\* subscriber registered after the projector threw.
PublishOutcomes == {"ok", "projector threw", "later subscriber threw"}
Projected(views, event, outcome) ==
    IF outcome = "projector threw" THEN views ELSE ProjectorApply(views, event)

\* What readStream(id) does: it returns the stream, fails on I/O, returns a
\* stream whose last event is of a type the Goal aggregate does not recognize
\* (the handler casts the history unchecked: `history as any`), or returns
\* the events out of order.
ReadAnswers == {"ok", "StoreUnavailable", "unrecognized", "out of order"}
HistoryRead(store, id, answer) ==
    LET stream == StoreReadStream(store, id)
    IN IF answer = "StoreUnavailable" THEN <<>>
       ELSE IF answer = "ok" THEN stream
       ELSE IF answer = "out of order"
       THEN [i \in DOMAIN stream |-> stream[Len(stream) + 1 - i]]
       ELSE [i \in DOMAIN stream |->
               IF i = Len(stream) THEN [stream[i] EXCEPT !.type = "UnrecognizedEvent"]
               ELSE stream[i]]

\* The ids a caller can name: those generated so far, and one that never was.
NameableIds == {randomUUID(n) : n \in 1..Len(cmds)} \cup {Ghost}

\* ------------------------------------------------------------ control flow
\* Faulty variant: the error of goal.add is caught and the handler goes on.
ExecuteThenIgnoresRejection(rejected) == "append added"

\* execute: goal.add threw, or the handler goes on to append.
ExecuteThen(rejected) == IF rejected THEN "failed" ELSE "append added"

\* Faulty variant: a failed append is swallowed and the event is published anyway.
AppendAddedThenSwallows(outcome) == "publish added"

\* Faulty variant: the goal-added event is not published before chaining.
AppendAddedThenSkipsPublish(outcome) ==
    IF outcome = "ok" THEN "find previous" ELSE "failed"

\* execute: `await append(event)` then `await publish(event)`.
AppendAddedThen(outcome) == IF outcome = "ok" THEN "publish added" ELSE "failed"

\* Faulty variant: a throwing subscriber is caught and the handler goes on.
PublishAddedThenSwallows(command, outcome) ==
    IF ChainingRequested(command) THEN "find previous" ELSE "done"

\* execute: after `await publish(event)`, chain if previousGoalId, then return.
PublishAddedThen(command, outcome) ==
    IF outcome # "ok" THEN "failed"
    ELSE IF ChainingRequested(command) THEN "find previous"
    ELSE "done"

\* Faulty variant: the existence check is missing: a null summary is not rejected.
FindPreviousThenSkipsCheck(d, outcome) ==
    IF ~ChainingConfigured(d) THEN "failed"
    ELSE IF outcome \in {"found", "null"} THEN "read history"
    ELSE "failed"

\* updatePreviousGoalNextGoalId: the guard, findById and the existence check.
FindPreviousThen(d, outcome) ==
    IF ~ChainingConfigured(d) THEN "failed"
    ELSE IF outcome = "found" THEN "read history"
    ELSE "failed"

FindPreviousError(d, outcome) ==
    IF ~ChainingConfigured(d) THEN "ConfigurationError"
    ELSE IF outcome = "null" THEN "NotFound"
    ELSE "FinderUnavailable"

\* updatePreviousGoalNextGoalId: `await readStream`, then rehydrate and update.
ReadHistoryThen(outcome) == IF outcome = "ok" THEN "append updated" ELSE "failed"

\* Faulty variant: a failed append of the update event is swallowed.
AppendUpdatedThenSwallows(outcome) == "publish updated"

\* Faulty variant: on a version conflict the handler reads the stream again.
AppendUpdatedThenRereads(outcome) ==
    IF outcome = "ok" THEN "publish updated"
    ELSE IF outcome = "ConcurrencyConflict" THEN "read history"
    ELSE "failed"

\* updatePreviousGoalNextGoalId: `await append(updateEvent)`, then publish.
AppendUpdatedThen(outcome) == IF outcome = "ok" THEN "publish updated" ELSE "failed"

\* Faulty variant: a throwing subscriber of the update event is swallowed.
PublishUpdatedThenSwallows(outcome) == "done"

\* updatePreviousGoalNextGoalId: `await publish(updateEvent)`, then return.
PublishUpdatedThen(outcome) == IF outcome = "ok" THEN "done" ELSE "failed"

\* ------------------------------------------------------------ actions
\* execute(command) up to its first await: id, embedded context, goal.add.
Begin(command) ==
    /\ LET pc == ExecuteThen(AddRejected(command))
       IN cmds' = Append(cmds,
            [command |-> command, goalId |-> randomUUID(Len(cmds) + 1),
             calls |-> <<>>, history |-> <<>>, pc |-> pc,
             error |-> IF pc = "failed" THEN "ValidationError" ELSE "none",
             errorId |-> Undef])
    /\ UNCHANGED <<streams, log, published, goalViews, deps, setupVars>>

\* A caller of Spec calls execute(command): calls may overlap.
Execute(command) ==
    /\ Len(cmds) < MaxCmds
    /\ NumInFlight < MaxInFlight
    /\ Begin(command)

\* A caller of SpecSeq calls execute(command) once the call before it ended.
ExecuteAlone(command) ==
    /\ Len(cmds) < MaxSeqCmds
    /\ NumInFlight = 0
    /\ Begin(command)

\* A caller of SpecRace calls execute(command) while earlier calls are suspended.
ExecuteRacing(command) ==
    /\ Len(cmds) < 1 + MaxRacers
    /\ Begin(command)

\* `await this.eventWriter.append(event)`.
AppendAdded(c) ==
    /\ cmds[c].pc = "append added"
    /\ \E io \in BOOLEAN :
         LET event == AddedEvent(cmds[c].goalId, cmds[c].command)
             outcome == AppendOutcome(streams, event, io)
             call == Call("append", event.streamId, event.type, outcome)
         IN /\ streams' = IF outcome = "ok" THEN StoreAppend(streams, event) ELSE streams
            /\ log' = IF outcome = "ok" THEN Append(log, [cmd |-> c, event |-> event]) ELSE log
            /\ cmds' = [cmds EXCEPT ![c] =
                          After(@, call, AppendAddedThen(outcome), outcome, Undef)]
    /\ UNCHANGED <<published, goalViews, deps, setupVars>>

\* `await this.eventBus.publish(event)`, then the test on previousGoalId.
PublishAdded(c) ==
    /\ cmds[c].pc = "publish added"
    /\ \E outcome \in PublishOutcomes :
         LET event == AddedEvent(cmds[c].goalId, cmds[c].command)
             call == Call("publish", event.streamId, event.type, outcome)
         IN /\ published' = published \cup {[cmd |-> c, event |-> event]}
            /\ goalViews' = Projected(goalViews, event, outcome)
            /\ cmds' = [cmds EXCEPT ![c] =
                          After(@, call, PublishAddedThen(cmds[c].command, outcome),
                                "SubscriberError", Undef)]
    /\ UNCHANGED <<streams, log, deps, setupVars>>

\* updatePreviousGoalNextGoalId: the guard on the collaborators, then
\* `await this.goalReader.findById(previousGoalId)` and the existence check.
FindPrevious(c) ==
    /\ cmds[c].pc = "find previous"
    /\ \E io \in BOOLEAN :
         LET previousGoalId == cmds[c].command.previousGoalId
             outcome == IF ~io THEN "threw"
                        ELSE IF FindById(goalViews, previousGoalId).present THEN "found"
                        ELSE "null"
             call == Call("findById", previousGoalId, "none", outcome)
             pc == FindPreviousThen(deps, outcome)
             error == FindPreviousError(deps, outcome)
             errorId == IF error = "NotFound" THEN previousGoalId ELSE Undef
         IN IF ChainingConfigured(deps)
            THEN cmds' = [cmds EXCEPT ![c] = After(@, call, pc, error, errorId)]
            ELSE cmds' = [cmds EXCEPT ![c].pc = pc, ![c].error = error]
    /\ UNCHANGED <<streams, log, published, goalViews, deps, setupVars>>

\* `await this.updateEventReader.readStream(previousGoalId)`.
ReadHistory(c) ==
    /\ cmds[c].pc = "read history"
    /\ \E answer \in ReadAnswers :
         LET previousGoalId == cmds[c].command.previousGoalId
             outcome == IF answer = "StoreUnavailable" THEN answer ELSE "ok"
             call == Call("readStream", previousGoalId, "none", outcome)
         IN cmds' = [cmds EXCEPT ![c] =
                [After(@, call, ReadHistoryThen(outcome), outcome, Undef)
                   EXCEPT !.history = HistoryRead(streams, previousGoalId, answer)]]
    /\ UNCHANGED <<streams, log, published, goalViews, deps, setupVars>>

\* Goal.rehydrate, previousGoal.update, then
\* `await this.updateEventWriter.append(updateEvent)`.
AppendUpdated(c) ==
    /\ cmds[c].pc = "append updated"
    /\ \E io \in BOOLEAN :
         LET previousGoalId == cmds[c].command.previousGoalId
             event == UpdateEvent(previousGoalId, cmds[c].history, cmds[c].goalId)
             outcome == AppendOutcome(streams, event, io)
             call == Call("append", event.streamId, event.type, outcome)
         IN IF GoalRehydrate(previousGoalId, cmds[c].history).corrupt
            THEN /\ cmds' = [cmds EXCEPT ![c].pc = "failed",
                                         ![c].error = "CorruptHistoryError"]
                 /\ UNCHANGED <<streams, log>>
            ELSE /\ streams' = IF outcome = "ok" THEN StoreAppend(streams, event)
                               ELSE streams
                 /\ log' = IF outcome = "ok"
                           THEN Append(log, [cmd |-> c, event |-> event]) ELSE log
                 /\ cmds' = [cmds EXCEPT ![c] =
                               After(@, call, AppendUpdatedThen(outcome), outcome, Undef)]
    /\ UNCHANGED <<published, goalViews, deps, setupVars>>

\* `await this.eventBus.publish(updateEvent)`, then `return { goalId }`.
PublishUpdated(c) ==
    /\ cmds[c].pc = "publish updated"
    /\ \E outcome \in PublishOutcomes :
         LET event == UpdateEvent(cmds[c].command.previousGoalId, cmds[c].history,
                                  cmds[c].goalId)
             call == Call("publish", event.streamId, event.type, outcome)
         IN /\ published' = published \cup {[cmd |-> c, event |-> event]}
            /\ goalViews' = Projected(goalViews, event, outcome)
            /\ cmds' = [cmds EXCEPT ![c] =
                          After(@, call, PublishUpdatedThen(outcome),
                                "SubscriberError", Undef)]
    /\ UNCHANGED <<streams, log, deps, setupVars>>

\* ------------------------------------------------------------ project files
\* infrastructure/project-knowledge/project/init: the configurers write agent
\* instruction files under the project root.  A text is a sequence of chunks;
\* a file either does not exist or holds a text.
CopilotInstructionsPath == ".github/copilot-instructions.md"
CursorMdPath == "CURSOR.md"
CursorRulePath == ".cursor/rules/jumbo/RULE.md"
GeminiMdPath == "GEMINI.md"
GeminiSettingsPath == ".gemini/settings.json"
Paths == {CopilotInstructionsPath, CursorMdPath, CursorRulePath, GeminiMdPath,
          GeminiSettingsPath}

GithubDir == ".github"
CursorRuleDir == ".cursor/rules/jumbo"
GeminiDir == ".gemini"
Directories == {GithubDir, CursorRuleDir, GeminiDir}

NoFile == [exists |-> FALSE, content |-> <<>>]
File(content) == [exists |-> TRUE, content |-> content]

\* fs.writeFile(path, content) on a file system; fs.writes lists the contents
\* handed to fs.writeFile since the step began.
WriteFile(fs, path, content) ==
    [fs EXCEPT !.files[path] = File(content),
               !.writes = Append(@, [path |-> path, content |-> content])]
\* fs.ensureDir(dir) on a file system.
EnsureDir(fs, dir) == [fs EXCEPT !.dirs = @ \cup {dir}]

\* The fs call of one ensure step that throws (the first call of that kind the
\* step reaches), if any.
Faults == {"none", "ensureDir", "pathExists", "readFile", "writeFile",
           "writeFile cut short", "copy"}

\* Whitespace chunks, String.prototype.trimEnd and String.prototype.trim.
Whitespace == {"\n", "\n\n"}

RECURSIVE TrimEnd(_)
TrimEnd(text) ==
    IF text # <<>> /\ text[Len(text)] \in Whitespace
    THEN TrimEnd(SubSeq(text, 1, Len(text) - 1))
    ELSE text

RECURSIVE TrimStart(_)
TrimStart(text) ==
    IF text # <<>> /\ Head(text) \in Whitespace THEN TrimStart(Tail(text)) ELSE text

Trim(text) == TrimStart(TrimEnd(text))

\* domain/project-knowledge/project/AgentInstructions: its texts, and what is
\* not known of them (t): whether the reference is padded with whitespace and
\* names AGENTS.md, and whether the Copilot instructions and the Jumbo section
\* contain the section marker.
AgentTexts == [referencePadded : BOOLEAN, referenceNamesAgents : BOOLEAN,
               instructionsHaveMarker : BOOLEAN, sectionHasMarker : BOOLEAN]

getAgentFileReference(t) ==
    IF t.referencePadded THEN <<"\n", "agent file reference", "\n">>
    ELSE <<"agent file reference">>
getCopilotInstructions == <<"copilot instructions">>
getJumboSection == <<"jumbo section">>
getJumboSectionMarker == "jumbo section marker"
AgentsMd == "AGENTS.md"

\* CursorConfigurer.getJumboRuleContent: frontmatter + the Jumbo section.
getJumboRuleContent == <<"rule frontmatter">> \o getJumboSection

\* Text a user wrote: plain, naming AGENTS.md, or holding the section marker.
UserText == "user text"
UserAgentsText == "user text naming AGENTS.md"
UserMarkerText == "user text with jumbo section marker"

\* Faulty variant: the needle is never found.
IncludesNever(t, text, needle) == FALSE

\* String.prototype.includes on a text.
ChunkIncludes(t, chunk, needle) ==
    IF needle = AgentsMd
    THEN \/ chunk = UserAgentsText
         \/ chunk = "agent file reference" /\ t.referenceNamesAgents
    ELSE \/ chunk = UserMarkerText
         \/ chunk = "copilot instructions" /\ t.instructionsHaveMarker
         \/ chunk = "jumbo section" /\ t.sectionHasMarker

Includes(t, text, needle) ==
    \E i \in DOMAIN text : ChunkIncludes(t, text[i], needle)

\* An ensure step that ended: the file system it leaves, and whether an fs
\* call (or the merge) threw inside it.
Ended(fs, threw) == [fs |-> fs, threw |-> threw]

\* A step or a merge that ended with `error` thrown: the fs call that failed,
\* or the message parseAndValidate or validateSettings gives it.
Thrown(fs, error) == [fs |-> fs, threw |-> TRUE, error |-> error]

\* The error a step or merge ended with.
ErrorOf(ended) ==
    IF ~ended.threw THEN "none"
    ELSE IF "error" \in DOMAIN ended THEN ended.error
    ELSE "fs error"

\* What a write that failed half-way leaves behind: the file, cut short.
Truncated(path) ==
    IF path = GeminiSettingsPath
    THEN [layout |-> "cut short", wellFormed |-> FALSE,
          value |-> [other |-> "none", hooksPresent |-> FALSE,
                     sessionStartPresent |-> FALSE, matchers |-> <<>>, sound |-> TRUE]]
    ELSE <<>>

\* `await fs.writeFile(path, content)` under a fault: it writes, or throws
\* before it touched the file, or throws after it opened and cut the file.
TryWrite(fs, fault, path, content) ==
    IF fault = "writeFile" THEN Thrown(fs, "writeFile")
    ELSE IF fault = "writeFile cut short"
    THEN Thrown([WriteFile(fs, path, content) EXCEPT
                    !.files[path] = File(Truncated(path))], "writeFile")
    ELSE Ended(WriteFile(fs, path, content), FALSE)

\* Faulty variant: a file without the marker is written anew.
ensureCopilotInstructionsOverwrites(fs, t, fault) ==
    IF fault = "ensureDir" THEN Ended(fs, TRUE)
    ELSE LET made == EnsureDir(fs, GithubDir)
             file == made.files[CopilotInstructionsPath]
         IN IF fault = "pathExists" THEN Ended(made, TRUE)
            ELSE IF file.exists /\ fault = "readFile" THEN Ended(made, TRUE)
            ELSE IF file.exists /\ Includes(t, file.content, getJumboSectionMarker)
            THEN Ended(made, FALSE)
            ELSE TryWrite(made, fault, CopilotInstructionsPath, getCopilotInstructions)

\* CopilotConfigurer.ensureCopilotInstructions, inside its try block.
ensureCopilotInstructions(fs, t, fault) ==
    IF fault = "ensureDir" THEN Ended(fs, TRUE)
    ELSE LET made == EnsureDir(fs, GithubDir)
             file == made.files[CopilotInstructionsPath]
         IN IF fault = "pathExists" THEN Ended(made, TRUE)
            ELSE IF ~file.exists
            THEN TryWrite(made, fault, CopilotInstructionsPath, getCopilotInstructions)
            ELSE IF fault = "readFile" THEN Ended(made, TRUE)
            ELSE IF Includes(t, file.content, getJumboSectionMarker)
            THEN Ended(made, FALSE)
            ELSE TryWrite(made, fault, CopilotInstructionsPath,
                          file.content \o <<"\n\n">> \o getCopilotInstructions)

\* ensureCursorMd and ensureGeminiMd, inside their try block: the same steps
\* on CURSOR.md and on GEMINI.md.
ensureAgentsReference(fs, t, fault, path) ==
    LET file == fs.files[path]
        reference == getAgentFileReference(t)
    IN IF fault = "pathExists" THEN Ended(fs, TRUE)
       ELSE IF ~file.exists
       THEN TryWrite(fs, fault, path, Trim(reference) \o <<"\n">>)
       ELSE IF fault = "readFile" THEN Ended(fs, TRUE)
       ELSE IF Includes(t, file.content, AgentsMd) THEN Ended(fs, FALSE)
       ELSE TryWrite(fs, fault, path, TrimEnd(file.content) \o <<"\n">> \o reference)

ensureCursorMd(fs, t, fault) == ensureAgentsReference(fs, t, fault, CursorMdPath)
ensureGeminiMd(fs, t, fault) == ensureAgentsReference(fs, t, fault, GeminiMdPath)

\* CursorConfigurer.ensureCursorRule, inside its try block.
ensureCursorRule(fs, t, fault) ==
    IF fault = "ensureDir" THEN Ended(fs, TRUE)
    ELSE LET made == EnsureDir(fs, CursorRuleDir)
             file == made.files[CursorRulePath]
         IN IF fault = "pathExists" THEN Ended(made, TRUE)
            ELSE IF ~file.exists
            THEN TryWrite(made, fault, CursorRulePath, getJumboRuleContent)
            ELSE IF fault = "readFile" THEN Ended(made, TRUE)
            ELSE IF Includes(t, file.content, getJumboSectionMarker)
            THEN Ended(made, FALSE)
            ELSE TryWrite(made, fault, CursorRulePath, getJumboRuleContent)

\* ------------------------------------------------------------ Gemini settings
\* SafeGeminiSettingsMerger.  A settings value: the user's other top-level
\* keys, whether `hooks` and `hooks.SessionStart` are there, the SessionStart
\* matchers (each a matcher type and its hook commands, in order), and
\* whether the value passes validateSettings.
Settings(other, hooksPresent, sessionStartPresent, matchers, sound) ==
    [other |-> other, hooksPresent |-> hooksPresent,
     sessionStartPresent |-> sessionStartPresent, matchers |-> matchers,
     sound |-> sound]

EmptySettings == Settings("none", FALSE, FALSE, <<>>, TRUE)

\* The text of a settings file: how it is laid out, whether JSON.parse accepts
\* it, and the value it parses to.
SettingsText(layout, wellFormed, value) ==
    [layout |-> layout, wellFormed |-> wellFormed, value |-> value]

\* `JSON.stringify(merged, null, 2) + "\n"`.
JSONstringify(value) == SettingsText("indent 2, final newline", TRUE, value)

\* parseAndValidate(content) throws.
ParseRejects(text) == ~text.wellFormed \/ ~text.value.sound

\* Faulty variant: the hooks are concatenated, no command is dropped.
DistinctKeepsAll(commands) == commands

\* The hook commands of two lists through `new Map`: each command once, in
\* the order of its first occurrence.
RECURSIVE Distinct(_)
Distinct(commands) ==
    IF commands = <<>> THEN <<>>
    ELSE LET front == Distinct(SubSeq(commands, 1, Len(commands) - 1))
             last == commands[Len(commands)]
         IN IF \E i \in DOMAIN front : front[i] = last THEN front
            ELSE Append(front, last)

\* Faulty variant: the new SessionStart list replaces the existing one.
mergeSessionStartHooksTakesNew(existing, additions) == additions

\* mergeSessionStartHooks(existing, additions).
RECURSIVE mergeSessionStartHooks(_, _)
mergeSessionStartHooks(existing, additions) ==
    IF additions = <<>> THEN existing
    ELSE LET newMatcher == Head(additions)
             same == {i \in DOMAIN existing : existing[i].matcher = newMatcher.matcher}
             merged ==
                IF same # {}
                THEN LET existingIndex == CHOOSE i \in same : \A j \in same : i <= j
                     IN [existing EXCEPT ![existingIndex].hooks =
                            Distinct(@ \o newMatcher.hooks)]
                ELSE Append(existing, newMatcher)
         IN mergeSessionStartHooks(merged, Tail(additions))

\* deepMerge(existing, newSettings).
deepMerge(existing, newSettings) ==
    IF ~newSettings.hooksPresent THEN existing
    ELSE IF ~newSettings.sessionStartPresent
    THEN [existing EXCEPT !.hooksPresent = TRUE]
    ELSE [existing EXCEPT
            !.hooksPresent = TRUE,
            !.sessionStartPresent = TRUE,
            !.sound = @ /\ newSettings.sound,
            !.matchers = mergeSessionStartHooks(
                            IF existing.sessionStartPresent THEN existing.matchers
                            ELSE <<>>,
                            newSettings.matchers)]

\* Faulty variant: neither the existing nor the merged settings are validated.
mergeInTryUnchecked(fs, fault, newSettings) ==
    LET file == fs.files[GeminiSettingsPath]
        existing == IF file.exists THEN file.content.value ELSE EmptySettings
    IN IF file.exists /\ fault = "readFile" THEN Thrown(fs, "readFile")
       ELSE TryWrite(fs, fault, GeminiSettingsPath,
                     JSONstringify(deepMerge(existing, newSettings)))

\* mergeSettings, steps 2 to 5 inside its try block.
mergeInTry(fs, fault, newSettings) ==
    LET file == fs.files[GeminiSettingsPath]
        existing == IF file.exists THEN file.content.value ELSE EmptySettings
        merged == deepMerge(existing, newSettings)
    IN IF file.exists /\ fault = "readFile" THEN Thrown(fs, "readFile")
       ELSE IF file.exists /\ ParseRejects(file.content)
       THEN Thrown(fs, "Invalid settings.json")
       ELSE IF ~merged.sound THEN Thrown(fs, "validateSettings")
       ELSE TryWrite(fs, fault, GeminiSettingsPath, JSONstringify(merged))

\* mergeSettings(projectRoot, newSettings): directory, backup, the try block,
\* and on an error the copy back from the backup before it is rethrown.
mergeSettings(fs, fault, newSettings) ==
    IF fault = "ensureDir" THEN Thrown(fs, "ensureDir")
    ELSE LET made == EnsureDir(fs, GeminiDir)
             file == made.files[GeminiSettingsPath]
         IN IF fault = "pathExists" THEN Thrown(made, "pathExists")
            ELSE IF file.exists /\ fault = "copy" THEN Thrown(made, "copy")
            ELSE LET saved == IF file.exists
                              THEN [made EXCEPT !.backups = Append(@, file.content)]
                              ELSE made
                     tried == mergeInTry(saved, fault, newSettings)
                 IN IF tried.threw /\ file.exists
                    THEN [tried EXCEPT !.fs.files[GeminiSettingsPath] =
                                           File(saved.backups[Len(saved.backups)])]
                    ELSE tried

\* No direct call of mergeSettings.
NoMerge == [newSettings |-> EmptySettings, calls |-> <<>>]

\* GeminiConfigurer.ensureGeminiSettings: the SessionStart hook it merges.
jumboHook ==
    Settings("none", TRUE, TRUE,
             <<[matcher |-> "startup", hooks |-> <<"jumbo session start">>]>>, TRUE)

\* GeminiConfigurer.ensureGeminiSettings, inside its try block.
ensureGeminiSettings(fs, t, fault) == mergeSettings(fs, fault, jumboHook)

\* ------------------------------------------------------------ configurers
\* The ensure steps configure() awaits, in order, for each configurer.
Steps ==
    [Copilot |-> <<"ensureCopilotInstructions">>,
     Cursor |-> <<"ensureCursorMd", "ensureCursorRule">>,
     Gemini |-> <<"ensureGeminiMd", "ensureGeminiSettings">>]
Configurers == DOMAIN Steps

\* No configure() call yet.
NoRun == [configurer |-> "none", todo |-> <<>>, ran |-> <<>>, status |-> "idle"]

\* The file system the next fs call sees.
FileSystem == [files |-> files, dirs |-> dirs, backups |-> backups, writes |-> <<>>]

\* Faulty variant: the ensure step has no catch block.
CaughtRethrows(threw) == [warned |-> FALSE, threw |-> threw]

\* The catch block of an ensure step: console.warn, and nothing is rethrown.
Caught(threw) == [warned |-> threw, threw |-> FALSE]

\* configure(projectRoot) of configurer k is entered.
Entered(k) ==
    /\ run.status # "running"
    /\ run' = [configurer |-> k, todo |-> Steps[k], ran |-> <<>>, status |-> "running"]
    /\ configured' = configured + 1
    /\ UNCHANGED <<streams, log, published, goalViews, deps, cmds>>
    /\ UNCHANGED <<files, dirs, backups, texts, warnings, merge, solution, banner>>

\* configure(projectRoot) is called (SpecSetup).
Configure(k) ==
    /\ configured < MaxConfigures
    /\ Entered(k)

\* configure(projectRoot) is called, again on the same configurer (SpecRepeat).
ConfigureAgain(k) ==
    /\ configured < MaxRepeats
    /\ run.configurer \in {"none", k}
    /\ Entered(k)

\* One awaited ensure step whose try block `ended`: its catch block, and the
\* return of configure() after the last step.
EnsureStep(step, ended) ==
    LET caught == Caught(ended.threw)
    IN /\ files' = ended.fs.files
       /\ dirs' = ended.fs.dirs
       /\ backups' = ended.fs.backups
       /\ warnings' = IF caught.warned THEN Append(warnings, step) ELSE warnings
       /\ run' = [run EXCEPT
                    !.todo = Tail(@),
                    !.ran = Append(@, [step |-> step, threw |-> ended.threw]),
                    !.status = IF caught.threw THEN "threw"
                               ELSE IF Tail(run.todo) = <<>> THEN "returned"
                               ELSE "running"]
       /\ UNCHANGED <<streams, log, published, goalViews, deps, cmds>>
       /\ UNCHANGED <<texts, configured, merge, solution, banner>>

\* The step configure() is suspended at.
Awaits(step) == run.status = "running" /\ Head(run.todo) = step

\* CopilotConfigurer.configure: `await this.ensureCopilotInstructions(projectRoot)`.
EnsureCopilotInstructions ==
    /\ Awaits("ensureCopilotInstructions")
    /\ \E fault \in Faults :
         EnsureStep("ensureCopilotInstructions", ensureCopilotInstructions(FileSystem, texts, fault))

\* CursorConfigurer.configure: `await this.ensureCursorMd(projectRoot)`.
EnsureCursorMd ==
    /\ Awaits("ensureCursorMd")
    /\ \E fault \in Faults :
         EnsureStep("ensureCursorMd", ensureCursorMd(FileSystem, texts, fault))

\* CursorConfigurer.configure: `await this.ensureCursorRule(projectRoot)`.
EnsureCursorRule ==
    /\ Awaits("ensureCursorRule")
    /\ \E fault \in Faults :
         EnsureStep("ensureCursorRule", ensureCursorRule(FileSystem, texts, fault))

\* GeminiConfigurer.configure: `await this.ensureGeminiMd(projectRoot)`.
EnsureGeminiMd ==
    /\ Awaits("ensureGeminiMd")
    /\ \E fault \in Faults :
         EnsureStep("ensureGeminiMd", ensureGeminiMd(FileSystem, texts, fault))

\* GeminiConfigurer.configure: `await this.ensureGeminiSettings(projectRoot)`.
EnsureGeminiSettings ==
    /\ Awaits("ensureGeminiSettings")
    /\ \E fault \in Faults :
         EnsureStep("ensureGeminiSettings", ensureGeminiSettings(FileSystem, texts, fault))

\* SafeGeminiSettingsMerger.mergeSettings(projectRoot, merge.newSettings) is
\* called directly and runs to its end; the caller calls again only after a
\* call that returned.
MergeSettings ==
    /\ Len(merge.calls) < MaxMerges
    /\ \A i \in DOMAIN merge.calls : ~merge.calls[i].threw
    /\ \E fault \in Faults :
         LET ended == mergeSettings(FileSystem, fault, merge.newSettings)
         IN /\ files' = ended.fs.files
            /\ dirs' = ended.fs.dirs
            /\ backups' = ended.fs.backups
            /\ merge' = [merge EXCEPT !.calls = Append(@,
                            [before |-> files[GeminiSettingsPath],
                             threw |-> ended.threw,
                             error |-> ErrorOf(ended),
                             writes |-> ended.fs.writes])]
    /\ UNCHANGED <<streams, log, published, goalViews, deps, cmds>>
    /\ UNCHANGED <<texts, warnings, run, configured, solution, banner>>

\* ------------------------------------------------------------ solution context
\* `null`, and a SolutionContextView.
Null == "null"
SolutionContextView(architecture, components, decisions, invariants, guidelines) ==
    [architecture |-> architecture, components |-> components,
     decisions |-> decisions, invariants |-> invariants, guidelines |-> guidelines]
EmptyContext == SolutionContextView(Null, <<>>, <<>>, <<>>, <<>>)

\* isUnprimed() not called.
NoSolution == [context |-> EmptyContext, asked |-> [status |-> "idle", value |-> FALSE]]

\* Faulty variant: guidelines do not count as solution context.
isUnprimedIgnoresGuidelines(context) ==
    ~(\/ context.architecture # Null
      \/ Len(context.components) > 0
      \/ Len(context.decisions) > 0
      \/ Len(context.invariants) > 0)

\* UnprimedBrownfieldQualifier.isUnprimed, after the context was read.
isUnprimed(context) ==
    LET hasArchitecture == context.architecture # Null
        hasComponents == Len(context.components) > 0
        hasDecisions == Len(context.decisions) > 0
        hasInvariants == Len(context.invariants) > 0
        hasGuidelines == Len(context.guidelines) > 0
        isPrimed == \/ hasArchitecture
                    \/ hasComponents
                    \/ hasDecisions
                    \/ hasInvariants
                    \/ hasGuidelines
    IN ~isPrimed

\* What `await this.solutionContextReader.getSolutionContext()` may do.
ContextAnswers == {"ok", "ReaderUnavailable"}

\* UnprimedBrownfieldQualifier.isUnprimed() is called and runs to its end.
IsUnprimed ==
    /\ solution.asked.status = "idle"
    /\ \E answer \in ContextAnswers :
         solution' = [solution EXCEPT !.asked =
                        IF answer = "ok"
                        THEN [status |-> "returned", value |-> isUnprimed(solution.context)]
                        ELSE [status |-> "threw", value |-> FALSE]]
    /\ UNCHANGED <<streams, log, published, goalViews, deps, cmds>>
    /\ UNCHANGED <<files, dirs, backups, texts, warnings, run, configured, merge, banner>>

\* ------------------------------------------------------------ banner
\* One write to the terminal: what is written, for a frame its index and
\* the content lines it ends with.
Write(kind) == [kind |-> kind, frame |-> 0, lines |-> <<>>]

\* getBannerLines(): the static banner.
getBannerLines == Write("static banner")

\* showElephantWalkBanner: completeFrames. Frame i of totalFrames, with the
\* caller's content in the last one only.
CompleteFrames(totalFrames, content) ==
    [i \in 1..totalFrames |->
        [kind |-> "frame", frame |-> i,
         lines |-> IF i = totalFrames THEN content ELSE <<>>]]

\* showElephantWalkBanner: the playback, write by write. The cursor is
\* hidden and the screen cleared, each frame is drawn from the home
\* position, and the cursor is moved below the last frame and shown.
Playback(frames) ==
    <<Write("ESC[?25l"), Write("console.clear")>>
        \o [k \in 1..(2 * Len(frames)) |->
              IF k % 2 = 1 THEN Write("ESC[H") ELSE frames[k \div 2]]
        \o <<Write("ESC[<height>H"), Write("console.log('')"), Write("ESC[?25h")>>

\* showAnimatedBanner not called, on a terminal.
NoBanner ==
    [isTTY |-> TRUE, totalFrames |-> 1, content |-> <<>>, projectName |-> "null",
     status |-> "idle", stdout |-> <<>>, stderr |-> <<>>]

\* showAnimatedBanner(content, projectName, version) is called and runs to
\* its end: it awaits showElephantWalkBanner, which has no await of its own.
ShowAnimatedBanner ==
    /\ banner.status = "idle"
    /\ banner' =
         IF ~banner.isTTY
         THEN [banner EXCEPT !.stderr = Append(@, "This should not have been called by a non-TTY process."),
                              !.status = "returned"]
         ELSE [banner EXCEPT
                 !.stdout = @ \o Playback(CompleteFrames(banner.totalFrames, banner.content)),
                 !.status = "returned"]
    /\ UNCHANGED <<streams, log, published, goalViews, deps, cmds>>
    /\ UNCHANGED <<files, dirs, backups, texts, warnings, run, configured, merge, solution>>

\* The handler specifications leave the project files alone.
SetupIdle ==
    /\ files = [p \in Paths |-> NoFile]
    /\ dirs = {}
    /\ backups = <<>>
    /\ texts = [referencePadded |-> FALSE, referenceNamesAgents |-> TRUE,
                instructionsHaveMarker |-> TRUE, sectionHasMarker |-> TRUE]
    /\ warnings = <<>>
    /\ run = NoRun
    /\ configured = 0
    /\ merge = NoMerge
    /\ solution = NoSolution
    /\ banner = NoBanner

\* ------------------------------------------------------------ specifications
\* The values a caller may pass for a link field.
LinkValues == {Undef, Empty} \cup NameableIds

\* The commands of Spec: every required field present, no embedded context,
\* chained to any nameable goal or to none.
ChainCommands == {AddGoalCommand({}, {}, Undef, prev) : prev \in LinkValues}

Wirings == [updateEventWriter : BOOLEAN, updateEventReader : BOOLEAN, goalReader : BOOLEAN]

Init ==
    /\ streams = [id \in GoalIds |-> <<>>]
    /\ log = <<>>
    /\ published = {}
    /\ goalViews = [id \in GoalIds |-> NoView]
    /\ deps \in Wirings
    /\ cmds = <<>>
    /\ SetupIdle

Next ==
    \/ \E command \in ChainCommands : Execute(command)
    \/ \E c \in DOMAIN cmds : AppendAdded(c)
    \/ \E c \in DOMAIN cmds : PublishAdded(c)
    \/ \E c \in DOMAIN cmds : FindPrevious(c)
    \/ \E c \in DOMAIN cmds : ReadHistory(c)
    \/ \E c \in DOMAIN cmds : AppendUpdated(c)
    \/ \E c \in DOMAIN cmds : PublishUpdated(c)

Spec == Init /\ [][Next]_vars

\* The commands of SpecFields: at most MaxMissing required fields left out, at
\* most MaxGiven context fields supplied, any link values.
MaxMissing == 1
MaxGiven == 1

FieldCommands ==
    {AddGoalCommand(missing, given, next, prev) :
        missing \in {m \in SUBSET RequiredFields : Cardinality(m) <= MaxMissing},
        given \in {g \in SUBSET ContextFields : Cardinality(g) <= MaxGiven},
        next \in LinkValues,
        prev \in LinkValues}

\* The state after one plain add command succeeded on an empty store.
PlainCommand == AddGoalCommand({}, {}, Undef, Undef)
FirstEvent == AddedEvent(randomUUID(1), PlainCommand)
FirstCalls ==
    <<Call("append", randomUUID(1), GoalAddedEventType, "ok"),
      Call("publish", randomUUID(1), GoalAddedEventType, "ok")>>

\* The first command of SpecFields: plain, or with a context field and a link
\* to a goal that does not exist.
SeedCommands == {PlainCommand, AddGoalCommand({}, {"architecture"}, Ghost, Undef)}

InitFields ==
    \E seed \in SeedCommands :
        LET event == AddedEvent(randomUUID(1), seed)
        IN /\ streams = StoreAppend([id \in GoalIds |-> <<>>], event)
           /\ log = <<[cmd |-> 1, event |-> event]>>
           /\ published = {[cmd |-> 1, event |-> event]}
           /\ goalViews = ProjectorApply([id \in GoalIds |-> NoView], event)
           /\ deps \in Wirings
           /\ cmds = <<[command |-> seed, goalId |-> randomUUID(1),
                        calls |-> FirstCalls, history |-> <<>>, pc |-> "done",
                        error |-> "none", errorId |-> Undef]>>
           /\ SetupIdle

\* One more command, with any of the field combinations, on that state.
NextFields ==
    \/ Len(cmds) = 1 /\ \E command \in FieldCommands : Execute(command)
    \/ \E c \in DOMAIN cmds : AppendAdded(c)
    \/ \E c \in DOMAIN cmds : PublishAdded(c)
    \/ \E c \in DOMAIN cmds : FindPrevious(c)
    \/ \E c \in DOMAIN cmds : ReadHistory(c)
    \/ \E c \in DOMAIN cmds : AppendUpdated(c)
    \/ \E c \in DOMAIN cmds : PublishUpdated(c)

SpecFields == InitFields /\ [][NextFields]_vars

\* The single-writer use of the tool: one execute() at a time, from an empty
\* store, every chaining collaborator configured.
\* The commands of SpecSeq chain to a goal generated before, or to none.
SeqCommands ==
    {AddGoalCommand({}, {}, Undef, prev) : prev \in NameableIds \ {Ghost}}
        \cup {PlainCommand}

InitSeq ==
    /\ streams = [id \in GoalIds |-> <<>>]
    /\ log = <<>>
    /\ published = {}
    /\ goalViews = [id \in GoalIds |-> NoView]
    /\ deps = [updateEventWriter |-> TRUE, updateEventReader |-> TRUE, goalReader |-> TRUE]
    /\ cmds = <<>>
    /\ SetupIdle

NextSeq ==
    \/ \E command \in SeqCommands : ExecuteAlone(command)
    \/ \E c \in DOMAIN cmds : AppendAdded(c)
    \/ \E c \in DOMAIN cmds : PublishAdded(c)
    \/ \E c \in DOMAIN cmds : FindPrevious(c)
    \/ \E c \in DOMAIN cmds : ReadHistory(c)
    \/ \E c \in DOMAIN cmds : AppendUpdated(c)
    \/ \E c \in DOMAIN cmds : PublishUpdated(c)

SpecSeq == InitSeq /\ [][NextSeq]_vars

\* Overlapping execute() calls that all chain to the goal of one plain add
\* that succeeded before, every chaining collaborator configured.
RaceCommands == {AddGoalCommand({}, {}, Undef, randomUUID(1))}

InitRace ==
    /\ streams = StoreAppend([id \in GoalIds |-> <<>>], FirstEvent)
    /\ log = <<[cmd |-> 1, event |-> FirstEvent]>>
    /\ published = {[cmd |-> 1, event |-> FirstEvent]}
    /\ goalViews = ProjectorApply([id \in GoalIds |-> NoView], FirstEvent)
    /\ deps = [updateEventWriter |-> TRUE, updateEventReader |-> TRUE, goalReader |-> TRUE]
    /\ cmds = <<[command |-> PlainCommand, goalId |-> randomUUID(1),
                 calls |-> FirstCalls, history |-> <<>>, pc |-> "done",
                 error |-> "none", errorId |-> Undef]>>
    /\ SetupIdle

NextRace ==
    \/ \E command \in RaceCommands : ExecuteRacing(command)
    \/ \E c \in DOMAIN cmds : AppendAdded(c)
    \/ \E c \in DOMAIN cmds : PublishAdded(c)
    \/ \E c \in DOMAIN cmds : FindPrevious(c)
    \/ \E c \in DOMAIN cmds : ReadHistory(c)
    \/ \E c \in DOMAIN cmds : AppendUpdated(c)
    \/ \E c \in DOMAIN cmds : PublishUpdated(c)

SpecRace == InitRace /\ [][NextRace]_vars

\* Project initialisation: configure() of any configurer on a project whose
\* managed files are absent, written by the user, set up before, or damaged.
UserSettings ==
    Settings("user keys", TRUE, TRUE,
             <<[matcher |-> "startup", hooks |-> <<"user command">>]>>, TRUE)

InitialFile(kind, path) ==
    IF kind = "absent" THEN NoFile
    ELSE IF path = GeminiSettingsPath
    THEN IF kind = "user" THEN File(SettingsText("user layout", TRUE, UserSettings))
         ELSE IF kind = "set up"
         THEN File(JSONstringify(deepMerge(UserSettings, jumboHook)))
         ELSE File(SettingsText("user layout", FALSE, EmptySettings))
    ELSE IF kind = "user" THEN File(<<UserText, "\n">>)
    ELSE IF kind = "set up"
    THEN IF path \in {CursorMdPath, GeminiMdPath}
         THEN File(<<UserText, "\n", UserAgentsText>>)
         ELSE File(<<UserText, "\n\n", UserMarkerText>>)
    ELSE File(<<>>)

ProjectKinds == {"absent", "user", "set up", "damaged"}

InitSetup ==
    /\ streams = [id \in GoalIds |-> <<>>]
    /\ log = <<>>
    /\ published = {}
    /\ goalViews = [id \in GoalIds |-> NoView]
    /\ deps = [updateEventWriter |-> FALSE, updateEventReader |-> FALSE,
               goalReader |-> FALSE]
    /\ cmds = <<>>
    /\ \E kind \in ProjectKinds :
         /\ files = [p \in Paths |-> InitialFile(kind, p)]
         /\ dirs = IF kind = "absent" THEN {} ELSE Directories
    /\ backups = <<>>
    /\ texts \in AgentTexts
    /\ warnings = <<>>
    /\ run = NoRun
    /\ configured = 0
    /\ merge = NoMerge
    /\ solution = NoSolution
    /\ banner = NoBanner

NextSetup ==
    \/ \E k \in Configurers : Configure(k)
    \/ EnsureCopilotInstructions
    \/ EnsureCursorMd
    \/ EnsureCursorRule
    \/ EnsureGeminiMd
    \/ EnsureGeminiSettings

SpecSetup == InitSetup /\ [][NextSetup]_vars

\* The settings SpecMerge draws: matcher types and hook commands, lists of
\* them with repetitions, and values validateSettings rejects. The existing
\* file has the commands of the user and of an earlier merge, the argument
\* of the merge the command of the program.
SeqsUpTo(S, n) == UNION {[1..k -> S] : k \in 0..n}
SessionStartLists(commands) ==
    SeqsUpTo([matcher : {"startup", "resume"}, hooks : SeqsUpTo(commands, MaxHooks)], MaxMatchers)
ValidSettings(other, commands) ==
    {Settings(other, FALSE, FALSE, <<>>, TRUE), Settings(other, TRUE, FALSE, <<>>, TRUE)}
        \cup {Settings(other, TRUE, TRUE, m, TRUE) : m \in SessionStartLists(commands)}
InvalidSettings(other) ==
    {Settings(other, TRUE, TRUE, <<[matcher |-> "startup", hooks |-> h]>>, FALSE) :
        h \in {<<>>, <<"jumbo session start">>}}
ExistingSettingsFiles ==
    {NoFile, File(SettingsText("user layout", FALSE, EmptySettings))}
        \cup {File(SettingsText("user layout", TRUE, v)) :
                v \in ValidSettings("user keys", {"jumbo session start", "user command"})
                        \cup InvalidSettings("user keys")}
NewSettings == ValidSettings("none", {"jumbo session start"}) \cup InvalidSettings("none")

\* A project with any settings.json, and the argument of the merge.
InitMerge ==
    /\ streams = [id \in GoalIds |-> <<>>]
    /\ log = <<>>
    /\ published = {}
    /\ goalViews = [id \in GoalIds |-> NoView]
    /\ deps = [updateEventWriter |-> FALSE, updateEventReader |-> FALSE,
               goalReader |-> FALSE]
    /\ cmds = <<>>
    /\ \E existing \in ExistingSettingsFiles :
         /\ files = [p \in Paths |-> IF p = GeminiSettingsPath THEN existing ELSE NoFile]
         /\ dirs = IF existing.exists THEN {GeminiDir} ELSE {}
    /\ backups = <<>>
    /\ texts = [referencePadded |-> FALSE, referenceNamesAgents |-> TRUE,
                instructionsHaveMarker |-> TRUE, sectionHasMarker |-> TRUE]
    /\ warnings = <<>>
    /\ run = NoRun
    /\ configured = 0
    /\ \E newSettings \in NewSettings : merge = [NoMerge EXCEPT !.newSettings = newSettings]
    /\ solution = NoSolution
    /\ banner = NoBanner

NextMerge == MergeSettings

SpecMerge == InitMerge /\ [][NextMerge]_vars

\* The solution contexts the reader may return.
SolutionContexts ==
    {SolutionContextView(a, c, d, i, g) :
        a \in {"architecture view", Null},
        c \in SeqsUpTo({"view"}, MaxViews), d \in SeqsUpTo({"view"}, MaxViews),
        i \in SeqsUpTo({"view"}, MaxViews), g \in SeqsUpTo({"view"}, MaxViews)}

InitPrimed ==
    /\ streams = [id \in GoalIds |-> <<>>]
    /\ log = <<>>
    /\ published = {}
    /\ goalViews = [id \in GoalIds |-> NoView]
    /\ deps = [updateEventWriter |-> FALSE, updateEventReader |-> FALSE,
               goalReader |-> FALSE]
    /\ cmds = <<>>
    /\ files = [p \in Paths |-> NoFile]
    /\ dirs = {}
    /\ backups = <<>>
    /\ texts = [referencePadded |-> FALSE, referenceNamesAgents |-> TRUE,
                instructionsHaveMarker |-> TRUE, sectionHasMarker |-> TRUE]
    /\ warnings = <<>>
    /\ run = NoRun
    /\ configured = 0
    /\ merge = NoMerge
    /\ \E context \in SolutionContexts : solution = [NoSolution EXCEPT !.context = context]
    /\ banner = NoBanner

NextPrimed == IsUnprimed

SpecPrimed == InitPrimed /\ [][NextPrimed]_vars

\* The terminals and arguments of showAnimatedBanner.
InitBanner ==
    /\ streams = [id \in GoalIds |-> <<>>]
    /\ log = <<>>
    /\ published = {}
    /\ goalViews = [id \in GoalIds |-> NoView]
    /\ deps = [updateEventWriter |-> FALSE, updateEventReader |-> FALSE,
               goalReader |-> FALSE]
    /\ cmds = <<>>
    /\ files = [p \in Paths |-> NoFile]
    /\ dirs = {}
    /\ backups = <<>>
    /\ texts = [referencePadded |-> FALSE, referenceNamesAgents |-> TRUE,
                instructionsHaveMarker |-> TRUE, sectionHasMarker |-> TRUE]
    /\ warnings = <<>>
    /\ run = NoRun
    /\ configured = 0
    /\ merge = NoMerge
    /\ solution = NoSolution
    /\ \E isTTY \in BOOLEAN, totalFrames \in 1..MaxFrames,
          content \in SeqsUpTo({"content line", "another content line"}, MaxContent),
          projectName \in {"null", "project"} :
         banner = [NoBanner EXCEPT !.isTTY = isTTY, !.totalFrames = totalFrames,
                                   !.content = content, !.projectName = projectName]

NextBanner == ShowAnimatedBanner

SpecBanner == InitBanner /\ [][NextBanner]_vars

\* The same configurer run several times on one project.
NextRepeat ==
    \/ \E k \in Configurers : ConfigureAgain(k)
    \/ EnsureCopilotInstructions
    \/ EnsureCursorMd
    \/ EnsureCursorRule
    \/ EnsureGeminiMd
    \/ EnsureGeminiSettings

SpecRepeat == InitSetup /\ [][NextRepeat]_vars

\* ------------------------------------------------------------ properties
Range(seq) == {seq[i] : i \in DOMAIN seq}

\* The appends that succeeded, and the events one command appended.
Appended == Range(log)
EventsOf(c) == {l.event : l \in {a \in Appended : a.cmd = c}}
PublishedOf(c) == {p.event : p \in {a \in published : a.cmd = c}}

\* A link field that names a goal (ids are `goal_<uuid>`, never empty).
Names(v) == v # Undef /\ v # Empty

\* The calls of one execution that satisfy a test on (op, type).
CallsOf(c, op, type) ==
    {i \in DOMAIN cmds[c].calls :
        cmds[c].calls[i].op = op /\ cmds[c].calls[i].type = type}

\* C1: every event handed to eventBus.publish was appended successfully before,
\* by the same execution, and is in its stream: the published events are a
\* subset of the appended ones; a publish call always directly follows the
\* successful append of the same event, so a failed append is never published.
PublishedAreAppended ==
    /\ \A p \in published :
         /\ p \in Appended
         /\ p.event \in Range(streams[p.event.streamId])
    /\ \A c \in DOMAIN cmds : \A i \in DOMAIN cmds[c].calls :
         cmds[c].calls[i].op = "publish" =>
            /\ i > 1
            /\ cmds[c].calls[i - 1].op = "append"
            /\ cmds[c].calls[i - 1].result = "ok"
            /\ cmds[c].calls[i - 1].id = cmds[c].calls[i].id
            /\ cmds[c].calls[i - 1].type = cmds[c].calls[i].type

\* C1 witness: an execution published its added event after appending it, and
\* then failed to append its update event, which it never published.
PublishedAfterAppendWitness ==
    \E c \in DOMAIN cmds :
        /\ cmds[c].pc = "failed"
        /\ Len(cmds[c].calls) = 5
        /\ cmds[c].calls[5].op = "append"
        /\ cmds[c].calls[5].result = "StoreUnavailable"
        /\ Cardinality(PublishedOf(c)) = 1
        /\ PublishedOf(c) = EventsOf(c)

\* C2: when execute returns for a command without previousGoalId, the new
\* goal's stream is exactly one event, the goal-added event at version 1 whose
\* payload carries the command's five required fields, and that event is the
\* only one the command appended to any stream.
ReturnsNow(c) == cmds[c].pc # "done" /\ cmds'[c].pc = "done"

PlainAddStoresOneEvent ==
    [][\A c \in DOMAIN cmds :
         (ReturnsNow(c) /\ cmds[c].command.previousGoalId = Undef) =>
            LET k == cmds[c].command
                s == streams'[cmds[c].goalId]
            IN /\ Len(s) = 1
               /\ s[1].streamId = cmds[c].goalId
               /\ s[1].type = GoalAddedEventType
               /\ s[1].version = 1
               /\ s[1].payload.objective = k.objective
               /\ s[1].payload.successCriteria = k.successCriteria
               /\ s[1].payload.scopeIn = k.scopeIn
               /\ s[1].payload.scopeOut = k.scopeOut
               /\ s[1].payload.boundaries = k.boundaries
               /\ \A f \in RequiredFields : k[f] # Undef
               /\ {l \in Range(log') : l.cmd = c} = {[cmd |-> c, event |-> s[1]]}
               /\ \A id \in GoalIds \ {cmds[c].goalId} : streams'[id] = streams[id]]_vars

\* C2 witness: a plain add returned while another goal's stream exists.
PlainAddReturnedWitness ==
    \E c \in DOMAIN cmds :
        /\ c > 1
        /\ cmds[c].pc = "done"
        /\ cmds[c].command.previousGoalId = Undef
        /\ Len(streams[cmds[c].goalId]) = 1
        /\ Len(streams[cmds[1].goalId]) = 1

\* C3: whenever execute returned {goalId: N} for a command whose previousGoalId
\* names a goal X, X's stream holds a goal-updated event with nextGoalId = N
\* that was appended after N's goal-added event.
ChainedAddLinksPrevious ==
    \A c \in DOMAIN cmds :
        (cmds[c].pc = "done" /\ Names(cmds[c].command.previousGoalId)) =>
            \E i, j \in DOMAIN log :
                /\ i < j
                /\ log[i].event.streamId = cmds[c].goalId
                /\ log[i].event.type = GoalAddedEventType
                /\ log[j].event.streamId = cmds[c].command.previousGoalId
                /\ log[j].event.type = GoalUpdatedEventType
                /\ PayloadValue(log[j].event, "nextGoalId") = cmds[c].goalId
                /\ log[j].event \in Range(streams[cmds[c].command.previousGoalId])

\* C3 witness: a chained add returned.
ChainedAddReturnedWitness ==
    \E c \in DOMAIN cmds :
        /\ cmds[c].pc = "done"
        /\ Names(cmds[c].command.previousGoalId)
        /\ Len(streams[cmds[c].command.previousGoalId]) = 2

\* C4: if findById returned null for the previousGoalId X, the command failed
\* with NotFound carrying X, never called readStream, neither appended nor
\* published a goal-updated event, and the only event it appended is the
\* goal-added event of the new goal.
FinderNull(c) ==
    \E i \in DOMAIN cmds[c].calls :
        cmds[c].calls[i].op = "findById" /\ cmds[c].calls[i].result = "null"

MissingPreviousIsNotFound ==
    \A c \in DOMAIN cmds :
        FinderNull(c) =>
            /\ cmds[c].pc = "failed"
            /\ cmds[c].error = "NotFound"
            /\ cmds[c].errorId = cmds[c].command.previousGoalId
            /\ CallsOf(c, "readStream", "none") = {}
            /\ CallsOf(c, "append", GoalUpdatedEventType) = {}
            /\ CallsOf(c, "publish", GoalUpdatedEventType) = {}
            /\ \A e \in EventsOf(c) \cup PublishedOf(c) : e.type = GoalAddedEventType
            /\ EventsOf(c) = {AddedEvent(cmds[c].goalId, cmds[c].command)}
            /\ AddedEvent(cmds[c].goalId, cmds[c].command)
                  = streams[cmds[c].goalId][1]

\* C4 witness: a command chained to an id that no goal has failed at the finder.
MissingPreviousWitness ==
    \E c \in DOMAIN cmds :
        /\ FinderNull(c)
        /\ cmds[c].command.previousGoalId = Ghost
        /\ cmds[c].error = "NotFound"

\* The chaining step of c failed: its goal-added event was appended and
\* published, chaining was requested, and the command failed afterwards.
ChainingFailed(c) ==
    /\ Names(cmds[c].command.previousGoalId)
    /\ cmds[c].pc = "failed"
    /\ Len(cmds[c].calls) >= 2
    /\ cmds[c].calls[2].op = "publish"
    /\ cmds[c].calls[2].result = "ok"

\* The goal-added event of c is still the first event of its stream, was
\* published, and the read model still shows the goal.
AddedEventKept(c) ==
    /\ Len(streams[cmds[c].goalId]) >= 1
    /\ streams[cmds[c].goalId][1] = AddedEvent(cmds[c].goalId, cmds[c].command)
    /\ AddedEvent(cmds[c].goalId, cmds[c].command) \in PublishedOf(c)
    /\ goalViews[cmds[c].goalId].present

\* The previous goal's stream holds an update event pointing to c's new goal.
LinkedFromPrevious(c) ==
    \E e \in Range(streams[cmds[c].command.previousGoalId]) :
        /\ e.type = GoalUpdatedEventType
        /\ PayloadValue(e, "nextGoalId") = cmds[c].goalId

\* The call that failed is the publish of the update event.
FailedPublishingUpdate(c) ==
    LET last == cmds[c].calls[Len(cmds[c].calls)]
    IN last.op = "publish" /\ last.type = GoalUpdatedEventType /\ last.result # "ok"

\* C5 as stated: whenever the chaining step fails, the goal-added event stays
\* committed and published, and the new goal is unlinked.
ChainingFailureLeavesUnlinked ==
    \A c \in DOMAIN cmds :
        ChainingFailed(c) => AddedEventKept(c) /\ ~LinkedFromPrevious(c)

\* C5 amended: whenever the chaining step fails, the goal-added event stays
\* committed and published; the new goal is unlinked exactly when the failure
\* is not the publish of the update event (then the update event is committed
\* in the previous goal's stream and is not rolled back either).
ChainingFailureKeepsAddedEvent ==
    \A c \in DOMAIN cmds :
        ChainingFailed(c) =>
            /\ AddedEventKept(c)
            /\ LinkedFromPrevious(c) <=> FailedPublishingUpdate(c)

\* C5 witness: a chaining step failed at the publish of the update event; the
\* new goal's event is still in place and the previous goal's stream holds
\* the link.
ChainingFailedWitness ==
    \E c \in DOMAIN cmds :
        /\ ChainingFailed(c)
        /\ cmds[c].error = "SubscriberError"
        /\ FailedPublishingUpdate(c)
        /\ LinkedFromPrevious(c)
        /\ AddedEventKept(c)

\* C6: a command whose previousGoalId names a goal, run by a handler without
\* one of the three chaining collaborators, never returns; it calls neither
\* findById nor readStream nor append or publish of an update event; once its
\* goal-added event is published it fails, with the configuration error.
SomeCollaboratorMissing ==
    ~deps.updateEventWriter \/ ~deps.updateEventReader \/ ~deps.goalReader

UnwiredChainingFails ==
    \A c \in DOMAIN cmds :
        (Names(cmds[c].command.previousGoalId) /\ SomeCollaboratorMissing) =>
            /\ cmds[c].pc \in {"append added", "publish added", "find previous", "failed"}
            /\ CallsOf(c, "findById", "none") = {}
            /\ CallsOf(c, "readStream", "none") = {}
            /\ CallsOf(c, "append", GoalUpdatedEventType) = {}
            /\ CallsOf(c, "publish", GoalUpdatedEventType) = {}
            /\ \A e \in EventsOf(c) \cup PublishedOf(c) : e.type = GoalAddedEventType
            /\ (cmds[c].pc = "failed" /\ Len(cmds[c].calls) = 2
                   /\ cmds[c].calls[2].result = "ok")
                  => cmds[c].error = "ConfigurationError"
            /\ (cmds[c].pc = "failed" /\ cmds[c].error # "ConfigurationError")
                  => cmds[c].calls[Len(cmds[c].calls)].result # "ok"

\* C6 witness: a chained add failed with the configuration error although the
\* goal it names exists, with only the reader missing.
UnwiredChainingWitness ==
    \E c \in DOMAIN cmds :
        /\ deps.updateEventWriter /\ deps.goalReader /\ ~deps.updateEventReader
        /\ cmds[c].error = "ConfigurationError"
        /\ goalViews[cmds[c].command.previousGoalId].present

\* C7: a command that lacks a required field fails with the validation error
\* before any side effect: no collaborator is called, it appends no event to
\* any stream and publishes none.
LacksRequired(command) == \E f \in RequiredFields : command[f] = Undef

InvalidCommandHasNoEffect ==
    \A c \in DOMAIN cmds :
        LacksRequired(cmds[c].command) =>
            /\ cmds[c].pc = "failed"
            /\ cmds[c].error = "ValidationError"
            /\ cmds[c].calls = <<>>
            /\ EventsOf(c) = {}
            /\ PublishedOf(c) = {}
            /\ streams[cmds[c].goalId] = <<>>
            /\ ~goalViews[cmds[c].goalId].present

\* C7 witness: a command without boundaries, chained to an existing goal and
\* carrying a nextGoalId, was rejected.
InvalidCommandWitness ==
    \E c \in DOMAIN cmds :
        /\ cmds[c].command.boundaries = Undef
        /\ cmds[c].command.objective # Undef
        /\ cmds[c].command.previousGoalId = cmds[1].goalId
        /\ cmds[c].command.nextGoalId = Ghost
        /\ cmds[c].error = "ValidationError"

\* C8: in every stream the i-th event has version i (1, 2, ..., n, no gap, no
\* duplicate) and belongs to that stream, and every step leaves each stream's
\* earlier events as they were: a stream only grows at its end.
VersionsAreDense ==
    \A id \in GoalIds : \A i \in DOMAIN streams[id] :
        streams[id][i].version = i /\ streams[id][i].streamId = id

StreamsOnlyGrow ==
    \A id \in GoalIds :
        /\ Len(streams'[id]) >= Len(streams[id])
        /\ SubSeq(streams'[id], 1, Len(streams[id])) = streams[id]

StreamsAreAppendOnly == []VersionsAreDense /\ [][StreamsOnlyGrow]_vars

\* C8 witness: a stream holds an added event and, after it, an updated event
TwoVersionsWitness ==
    \E id \in GoalIds :
        /\ Len(streams[id]) = 2
        /\ streams[id][2].type = GoalUpdatedEventType

\* C9 as stated: whenever an event that sets a goal's nextGoalId to B is
\* appended, B's stream is non-empty before that append.
LinksOf(entries) ==
    {PayloadValue(l.event, "nextGoalId") : l \in entries} \ {Undef, Empty}

LinkTargetExists ==
    [][\A b \in LinksOf(Range(log') \ Range(log)) : streams[b] # <<>>]_vars

\* C10 as stated: when a chained add returns, the previous goal rehydrates
\* with nextGoalId = new id and the new goal with previousGoalId = previous id.
ChainIsDoublyLinked ==
    [][\A c \in DOMAIN cmds :
         (ReturnsNow(c) /\ Names(cmds[c].command.previousGoalId)) =>
            LET x == cmds[c].command.previousGoalId
                n == cmds[c].goalId
            IN /\ GoalRehydrate(x, streams'[x]).fields.nextGoalId = n
               /\ GoalRehydrate(n, streams'[n]).fields.previousGoalId = x]_vars

\* ------------------------------------------------------------ C11
\* The events committed to stream `id` by the executions that began before c.
CommittedBefore(c, id) ==
    {i \in DOMAIN log : log[i].cmd < c /\ log[i].event.streamId = id}

\* C11: with one execute() at a time, when a chained add returns N for a
\* previous goal X whose stream held k events before the command, stream X
\* holds k + 1 events, the last one the goal-updated event at version k + 1
\* with nextGoalId = N; stream N is exactly one event, at version 1; and
\* rehydrating X from its stream yields nextGoalId = N.
ChainedAddExtendsPrevious ==
    [][\A c \in DOMAIN cmds :
         (ReturnsNow(c) /\ Names(cmds[c].command.previousGoalId)) =>
            LET X == cmds[c].command.previousGoalId
                N == cmds[c].goalId
                k == Cardinality(CommittedBefore(c, X))
                sX == streams'[X]
                sN == streams'[N]
            IN /\ Len(sX) = k + 1
               /\ sX[k + 1].type = GoalUpdatedEventType
               /\ sX[k + 1].version = k + 1
               /\ PayloadValue(sX[k + 1], "nextGoalId") = N
               /\ Len(sN) = 1
               /\ sN[1].type = GoalAddedEventType
               /\ sN[1].version = 1
               /\ ~GoalRehydrate(X, sX).corrupt
               /\ GoalRehydrate(X, sX).fields["nextGoalId"] = N]_vars

\* C11 witness: a chained add returned for a previous goal that already held
\* two events (it had been linked before), so its stream now holds three.
ChainedAddExtendsWitness ==
    \E c \in DOMAIN cmds :
        /\ cmds[c].pc = "done"
        /\ Names(cmds[c].command.previousGoalId)
        /\ Cardinality(CommittedBefore(c, cmds[c].command.previousGoalId)) = 2
        /\ Len(streams[cmds[c].command.previousGoalId]) = 3
        /\ GoalRehydrate(cmds[c].command.previousGoalId,
                         streams[cmds[c].command.previousGoalId]).fields["nextGoalId"]
             = cmds[c].goalId

\* ------------------------------------------------------------ C12
\* A call of a collaborator that threw, and the error the caller then sees.
CallThrew(call) == call.result \notin {"ok", "found", "null"}
ErrorOfCall(call) ==
    IF call.op \in {"append", "readStream"} THEN call.result
    ELSE IF call.op = "publish" THEN "SubscriberError"
    ELSE "FinderUnavailable"

\* The history an execution read makes Goal.rehydrate throw.
ReadCorruptHistory(c) ==
    /\ \E i \in DOMAIN cmds[c].calls :
         cmds[c].calls[i].op = "readStream" /\ cmds[c].calls[i].result = "ok"
    /\ GoalRehydrate(cmds[c].command.previousGoalId, cmds[c].history).corrupt

\* C12: the handler swallows no failure of a collaborator: a call of append,
\* publish, findById or readStream that threw is the last call the execution
\* made and the execution failed with that error; a history that rehydrate
\* rejects is followed by no append or publish and fails the execution with
\* CorruptHistoryError; when publish of the goal-added event throws, execute
\* fails although the event is committed, and chaining is not attempted.
FailuresPropagate ==
    \A c \in DOMAIN cmds :
        LET e == cmds[c]
            n == Len(e.calls)
        IN /\ \A i \in DOMAIN e.calls :
                CallThrew(e.calls[i]) =>
                    /\ i = n
                    /\ e.pc = "failed"
                    /\ e.error = ErrorOfCall(e.calls[i])
           /\ ReadCorruptHistory(c) =>
                /\ e.calls[n].op = "readStream"
                /\ e.pc \in {"append updated", "failed"}
                /\ e.pc = "failed" => e.error = "CorruptHistoryError"
           /\ (n >= 2 /\ e.calls[2].op = "publish" /\ CallThrew(e.calls[2])) =>
                /\ n = 2
                /\ AddedEvent(e.goalId, e.command) \in Range(streams[e.goalId])
                /\ CallsOf(c, "findById", "none") = {}

\* C12 witness: a chained add whose goal-added event is committed failed at
\* the publish of that event, and another execution failed at rehydrate.
FailuresPropagateWitness ==
    /\ \E c \in DOMAIN cmds :
        /\ Names(cmds[c].command.previousGoalId)
        /\ cmds[c].pc = "failed"
        /\ cmds[c].error = "SubscriberError"
        /\ Len(cmds[c].calls) = 2
        /\ Len(streams[cmds[c].goalId]) = 1
    /\ \E c \in DOMAIN cmds :
        /\ ReadCorruptHistory(c)
        /\ cmds[c].error = "CorruptHistoryError"

\* ------------------------------------------------------------ C13
\* C13: the handler never retries an append: one execute() calls append at
\* most once for its goal-added event and at most once for a goal-updated
\* event, and reads the previous goal's stream at most once; an append that
\* failed with ConcurrencyConflict or StoreUnavailable is the last call of the
\* execution, which has failed with that error.
AppendsAreNotRetried ==
    \A c \in DOMAIN cmds :
        /\ Cardinality(CallsOf(c, "append", GoalAddedEventType)) <= 1
        /\ Cardinality(CallsOf(c, "append", GoalUpdatedEventType)) <= 1
        /\ Cardinality(CallsOf(c, "readStream", "none")) <= 1
        /\ \A i \in DOMAIN cmds[c].calls :
              (/\ cmds[c].calls[i].op = "append"
               /\ cmds[c].calls[i].result \in {"ConcurrencyConflict", "StoreUnavailable"})
              => /\ i = Len(cmds[c].calls)
                 /\ cmds[c].pc = "failed"
                 /\ cmds[c].error = cmds[c].calls[i].result

\* C13 witness: an execution whose append of the update event met a version
\* conflict has failed after its five calls, while the stream has moved on.
ConflictNotRetriedWitness ==
    \E c \in DOMAIN cmds :
        /\ cmds[c].pc = "failed"
        /\ cmds[c].error = "ConcurrencyConflict"
        /\ Len(cmds[c].calls) = 5
        /\ Len(streams[cmds[c].command.previousGoalId]) > Len(cmds[c].history)

\* ------------------------------------------------------------ C14
\* The result of the append of the update event by execution c, if it made one.
UpdateAppends(c) ==
    {cmds[c].calls[i].result : i \in CallsOf(c, "append", GoalUpdatedEventType)}

\* Executions c and d chain to the same goal and read its stream at the same
\* length, so neither had appended its update when the other read.
ReadSameLength(c, d) ==
    /\ c # d
    /\ Names(cmds[c].command.previousGoalId)
    /\ cmds[c].command.previousGoalId = cmds[d].command.previousGoalId
    /\ \A e \in {c, d} : \E i \in CallsOf(e, "readStream", "none") :
            cmds[e].calls[i].result = "ok"
    /\ Len(cmds[c].history) = Len(cmds[d].history)

\* C14: when two add commands chain to the same goal X and both read X's
\* stream at length k, at most one of their update events is committed at
\* version k + 1; once one is, the append of the other fails, with
\* ConcurrencyConflict whenever the store is available; and no stream ever
\* holds two events with the same version.
RacingLinksConflict ==
    /\ \A c, d \in DOMAIN cmds :
         ReadSameLength(c, d) =>
            LET X == cmds[c].command.previousGoalId
                k == Len(cmds[c].history)
            IN /\ ~("ok" \in UpdateAppends(c) /\ "ok" \in UpdateAppends(d))
               /\ Cardinality({i \in DOMAIN streams[X] :
                                 streams[X][i].version = k + 1}) <= 1
               /\ ("ok" \in UpdateAppends(c) /\ UpdateAppends(d) # {}) =>
                     UpdateAppends(d) \subseteq {"ConcurrencyConflict", "StoreUnavailable"}
               /\ ("ok" \in UpdateAppends(c) /\ cmds[d].pc = "append updated") =>
                     AppendOutcome(streams,
                                   UpdateEvent(X, cmds[d].history, cmds[d].goalId),
                                   TRUE) = "ConcurrencyConflict"
    /\ \A id \in GoalIds : \A i, j \in DOMAIN streams[id] :
         streams[id][i].version = streams[id][j].version => i = j

\* C14 witness: two executions read the previous goal's stream at the same
\* length; one committed its update, the other met a ConcurrencyConflict.
RacingLinksWitness ==
    \E c, d \in DOMAIN cmds :
        /\ ReadSameLength(c, d)
        /\ UpdateAppends(c) = {"ok"}
        /\ UpdateAppends(d) = {"ConcurrencyConflict"}
        /\ Len(streams[cmds[c].command.previousGoalId]) = Len(cmds[c].history) + 1

\* ------------------------------------------------------------ C15
\* The publish calls of execution c that delivered to every subscriber.
DeliveredOf(c) ==
    {[id |-> cmds'[c].calls[i].id, type |-> cmds'[c].calls[i].type] :
        i \in {j \in DOMAIN cmds'[c].calls :
                 cmds'[c].calls[j].op = "publish" /\ cmds'[c].calls[j].result = "ok"}}

\* C15: when execute returns, every event the command appended has been
\* handed to the bus and delivered to the projector: the finder knows the new
\* goal, and for a chained add the previous goal's view shows
\* nextGoalId = the new goal's id, in the state execute returns in.
ReturnedIsProjected ==
    [][\A c \in DOMAIN cmds :
         ReturnsNow(c) =>
            LET N == cmds[c].goalId
                X == cmds[c].command.previousGoalId
                mine == {l.event : l \in {a \in Range(log') : a.cmd = c}}
            IN /\ mine # {}
               /\ \A event \in mine :
                    /\ [cmd |-> c, event |-> event] \in published'
                    /\ [id |-> event.streamId, type |-> event.type] \in DeliveredOf(c)
               /\ FindById(goalViews', N).present
               /\ Names(X) => /\ FindById(goalViews', X).present
                               /\ FindById(goalViews', X).nextGoalId = N]_vars

\* C15 witness: a chained add returned, and the finder shows both the new
\* goal and the link from the previous goal to it.
ReturnedIsProjectedWitness ==
    \E c \in DOMAIN cmds :
        /\ cmds[c].pc = "done"
        /\ Names(cmds[c].command.previousGoalId)
        /\ Cardinality(EventsOf(c)) = 2
        /\ goalViews[cmds[c].goalId].present
        /\ goalViews[cmds[c].command.previousGoalId].nextGoalId = cmds[c].goalId

\* ------------------------------------------------------------ C17
\* The histories of the behaviour: every stream, and every history an
\* execution read (one of them may end in an unrecognized event).
Histories ==
    {<<id, streams[id]>> : id \in GoalIds}
        \cup {<<cmds[c].command.previousGoalId, cmds[c].history>> : c \in DOMAIN cmds}

CommitsUpdateNow(c) ==
    /\ cmds[c].pc = "append updated"
    /\ cmds'[c].pc = "publish updated"

\* C18: the chain update passes only nextGoalId: the event it commits carries
\* no other field, and every field of the previous goal other than nextGoalId
\* rehydrates from the extended stream to the value it had before.
ChainUpdateKeepsOtherFields ==
    [][\A c \in DOMAIN cmds :
         CommitsUpdateNow(c) =>
            LET X == cmds[c].command.previousGoalId
                before == GoalRehydrate(X, streams[X])
                after == GoalRehydrate(X, streams'[X])
                event == streams'[X][Len(streams'[X])]
            IN /\ Len(streams'[X]) = Len(streams[X]) + 1
               /\ event.type = GoalUpdatedEventType
               /\ \A f \in StateFields \ {"nextGoalId"} :
                    /\ PayloadValue(event, f) = Undef
                    /\ after.fields[f] = before.fields[f]
               /\ after.fields["nextGoalId"] = cmds[c].goalId
               /\ ~after.corrupt]_vars

\* C18 witness: the update was committed to a goal that had an objective, an
\* architecture and a link before; only the link has changed.
ChainUpdateKeepsWitness ==
    \E c \in DOMAIN cmds :
        LET X == cmds[c].command.previousGoalId
        IN /\ cmds[c].pc = "publish updated"
           /\ Len(streams[X]) = 2
           /\ PayloadValue(streams[X][1], "nextGoalId") = Ghost
           /\ GoalRehydrate(X, streams[X]).fields["nextGoalId"] = cmds[c].goalId
           /\ GoalRehydrate(X, streams[X]).fields["architecture"] = Sample["architecture"]
           /\ GoalRehydrate(X, streams[X]).fields["objective"] = Sample["objective"]

\* ------------------------------------------------------------ C19
\* The optional fields of a command that carry a value (an empty string
\* carries none).
Supplied(command) == {f \in EmbeddedFields : command[f] # Undef /\ command[f] # Empty}

\* The goal-added events committed, each with the command it came from.
AddedCommits == {l \in Appended : l.event.type = GoalAddedEventType}

\* C19: the goal-added event carries an embedded context if and only if the
\* command supplies at least one of relevantInvariants, relevantGuidelines,
\* relevantDependencies, relevantComponents, architecture, filesToBeCreated,
\* filesToBeChanged, nextGoalId; the context then holds the command's eight
\* values, and is left out (undefined) otherwise; previousGoalId alone gives
\* no embedded context.
ContextIffSupplied ==
    \A l \in AddedCommits :
        LET command == cmds[l.cmd].command
            context == l.event.payload.embeddedContext
        IN /\ context.present <=> Supplied(command) # {}
           /\ context.present =>
                \A f \in EmbeddedFields : context.fields[f] = command[f]
           /\ ~context.present => context = NoContext
           /\ (Supplied(command) = {} /\ Names(command.previousGoalId)) =>
                ~context.present

\* C19 witness: one committed goal-added event carries the context of a
\* command that supplied architecture and nextGoalId; another comes from a
\* command that supplied only previousGoalId and carries none.
ContextIffSuppliedWitness ==
    /\ \E l \in AddedCommits :
         /\ Supplied(cmds[l.cmd].command) = {"architecture", "nextGoalId"}
         /\ l.event.payload.embeddedContext.present
    /\ \E l \in AddedCommits :
         /\ Supplied(cmds[l.cmd].command) = {}
         /\ Names(cmds[l.cmd].command.previousGoalId)
         /\ ~l.event.payload.embeddedContext.present

\* ------------------------------------------------------------ C20
\* The ensure steps of the configure() call in progress that have ended.
StepsRan == [i \in DOMAIN run.ran |-> run.ran[i].step]

\* An ensure step ends in this step of the behaviour.
EnsureStepEnds == Len(run'.ran) = Len(run.ran) + 1

\* C20: configure() of the Copilot, Cursor and Gemini configurers never
\* throws: a failure of directory creation, existence check, read, write or
\* settings merge inside an ensure step is caught and reported by exactly one
\* console.warn of that step, the steps after it still run in order, and
\* configure() returns once every step has ended.
ConfigureNeverThrows ==
    /\ [](/\ run.status # "threw"
          /\ run.status \in {"running", "returned"} =>
                StepsRan \o run.todo = Steps[run.configurer]
          /\ run.status = "returned" <=> (run.configurer # "none" /\ run.todo = <<>>))
    /\ [][EnsureStepEnds =>
            LET ended == run'.ran[Len(run'.ran)]
            IN /\ ended.step = Head(run.todo)
               /\ warnings' = IF ended.threw THEN Append(warnings, ended.step)
                               ELSE warnings]_vars

\* C20 witness: configure() of the Gemini configurer returned although
\* ensureGeminiMd failed: it warned once, GEMINI.md is still absent, and
\* ensureGeminiSettings ran after it and wrote the settings.
ConfigureWarnedWitness ==
    /\ run.configurer = "Gemini"
    /\ run.status = "returned"
    /\ run.ran[1].threw
    /\ ~run.ran[2].threw
    /\ warnings = <<"ensureGeminiMd">>
    /\ ~files[GeminiMdPath].exists
    /\ files[GeminiSettingsPath].exists
    /\ files[GeminiSettingsPath].content.value = jumboHook

\* ------------------------------------------------------------ C21
\* The texts of AgentInstructions contain what the configurers look for:
\* the reference names AGENTS.md and the Copilot instructions hold the
\* section marker.
TextsAreRecognized == texts.referenceNamesAgents /\ texts.instructionsHaveMarker

\* C21: the configurers are idempotent: when configure() ran without a
\* failure, whatever the managed files were before (absent, without the
\* marker or reference, with it), no ensure step of a later configure() of
\* the same configurer changes a file: nothing is appended a second time.
\* This holds for texts of AgentInstructions that contain the marker and the
\* reference the steps test for.
ConfigureIsIdempotent ==
    [][(/\ EnsureStepEnds
        /\ configured >= 2
        /\ warnings' = <<>>
        /\ TextsAreRecognized) => files' = files]_vars

\* C21 witness: configure() of the Cursor configurer returned a second time
\* without a warning on a project whose CURSOR.md held user text without the
\* reference: the reference is in it once.
ConfigureTwiceWitness ==
    /\ configured = 2
    /\ run.configurer = "Cursor"
    /\ run.status = "returned"
    /\ warnings = <<>>
    /\ files[CursorMdPath].content = <<UserText, "\n">> \o getAgentFileReference(texts)
    /\ files[CursorRulePath].content = getJumboRuleContent

\* ------------------------------------------------------------ C22
\* The calls of mergeSettings so far, and whether call i returned.
MergeCalls == merge.calls
MergeReturned(i) == i \in DOMAIN MergeCalls /\ ~MergeCalls[i].threw

\* The existing settings.json passes parseAndValidate.
ValidFile(file) == file.exists /\ ~ParseRejects(file.content)

\* C22: mergeSettings is idempotent on content: when a merge of valid N into
\* a valid settings.json returned, a second merge of the same N that returns
\* leaves the content of settings.json as the first merge left it, also for N
\* that lists a command twice under a matcher or a matcher type twice.
MergeIsIdempotent ==
    [][(/\ Len(MergeCalls) = 1
        /\ MergeReturned(1)
        /\ ValidFile(MergeCalls[1].before)
        /\ merge.newSettings.sound
        /\ Len(merge.calls') = 2
        /\ ~merge.calls'[2].threw)
       => files'[GeminiSettingsPath] = files[GeminiSettingsPath]]_vars

\* ------------------------------------------------------------ C23
\* The errors mergeSettings throws from inside its try block, after the
\* backup step: reading or parsing and validating the existing file,
\* validating the merged settings, writing.
ErrorsAfterBackup == {"readFile", "Invalid settings.json", "validateSettings", "writeFile"}

\* C23: rollback on error: when mergeSettings fails at a step after the
\* backup step, settings.json afterwards has exactly the content it had
\* before the call, whatever the starting state, also when settings.json did
\* not exist before the call.
RollbackRestores ==
    [][(/\ Len(merge.calls') = Len(MergeCalls) + 1
        /\ merge.calls'[Len(merge.calls')].error \in ErrorsAfterBackup)
       => files'[GeminiSettingsPath] = files[GeminiSettingsPath]]_vars

\* ------------------------------------------------------------ C24
\* The hook commands of a list.
Commands(hooks) == {hooks[i] : i \in DOMAIN hooks}

\* Everything of the settings E is still in the settings after: the other
\* top-level keys, hooks and hooks.SessionStart if E had them, every matcher
\* at its position and every command under it.
Preserved(E, after) ==
    /\ after.other = E.other
    /\ E.hooksPresent => after.hooksPresent
    /\ E.sessionStartPresent => after.sessionStartPresent
    /\ \A k \in DOMAIN E.matchers :
         /\ k \in DOMAIN after.matchers
         /\ after.matchers[k].matcher = E.matchers[k].matcher
         /\ Commands(E.matchers[k].hooks) \subseteq Commands(after.matchers[k].hooks)

\* A call of mergeSettings returns in this step.
MergeReturnsNow ==
    /\ Len(merge.calls') = Len(MergeCalls) + 1
    /\ ~merge.calls'[Len(merge.calls')].threw

\* C24: existing user settings are preserved: after a successful merge into
\* an existing settings.json every matcher it had is at its original
\* position, every hook command under it is still there, and the keys other
\* than hooks.SessionStart are unchanged.
MergePreservesExisting ==
    [][(MergeReturnsNow /\ files[GeminiSettingsPath].exists)
       => /\ files'[GeminiSettingsPath].exists
          /\ files'[GeminiSettingsPath].content.wellFormed
          /\ Preserved(files[GeminiSettingsPath].content.value,
                       files'[GeminiSettingsPath].content.value)]_vars

\* C24 witness: a merge returned on a settings.json with a resume and a
\* startup matcher, each with a user command; the startup matcher, still
\* second, has the new command after the user's.
MergePreservesWitness ==
    /\ Len(MergeCalls) = 1
    /\ MergeReturned(1)
    /\ MergeCalls[1].before.exists
    /\ MergeCalls[1].before.content.value.matchers =
         <<[matcher |-> "resume", hooks |-> <<"user command">>],
           [matcher |-> "startup", hooks |-> <<"user command">>]>>
    /\ files[GeminiSettingsPath].content.value.other = "user keys"
    /\ files[GeminiSettingsPath].content.value.matchers =
         <<[matcher |-> "resume", hooks |-> <<"user command">>],
           [matcher |-> "startup", hooks |-> <<"user command", "jumbo session start">>]>>

\* ------------------------------------------------------------ C30
\* The fs calls mergeSettings makes before it parses the existing file.
ErrorsBeforeParse == {"ensureDir", "pathExists", "copy", "readFile"}

\* C30: mergeSettings never writes an invalid settings file: every content
\* it hands to fs.writeFile is well-formed JSON of settings that
\* validateSettings accepts, and on a malformed or structurally invalid
\* existing settings.json it throws without writing anything; the error is
\* 'Invalid settings.json' unless an fs call failed before the file was parsed.
MergeWritesOnlyValid ==
    \A i \in DOMAIN MergeCalls :
        LET call == MergeCalls[i]
        IN /\ \A w \in DOMAIN call.writes :
                /\ call.writes[w].path = GeminiSettingsPath
                /\ call.writes[w].content.wellFormed
                /\ call.writes[w].content.value.sound
           /\ (call.before.exists /\ ParseRejects(call.before.content))
                => /\ call.threw
                   /\ call.writes = <<>>
                   /\ call.error \in {"Invalid settings.json"} \cup ErrorsBeforeParse

\* C30 witness: a merge of valid settings into a malformed settings.json
\* threw 'Invalid settings.json', wrote nothing and left the file as it was.
MergeRejectsInvalidWitness ==
    /\ Len(MergeCalls) = 1
    /\ merge.newSettings.sound
    /\ MergeCalls[1].before.exists
    /\ ~MergeCalls[1].before.content.wellFormed
    /\ MergeCalls[1].error = "Invalid settings.json"
    /\ MergeCalls[1].writes = <<>>
    /\ files[GeminiSettingsPath] = MergeCalls[1].before

\* ------------------------------------------------------------ C25
\* The lists of a solution context.
ContextLists == {"components", "decisions", "invariants", "guidelines"}

\* C25: isUnprimed returns true exactly when the solution context has
\* architecture = null and empty components, decisions, invariants and
\* guidelines lists; a single element anywhere makes it false.
UnprimedIffNoContext ==
    solution.asked.status = "returned"
        => (solution.asked.value
              <=> /\ solution.context.architecture = Null
                  /\ \A list \in ContextLists : solution.context[list] = <<>>)

\* C25 witness: isUnprimed returned false on a context whose only element
\* is one guideline.
PrimedByOneGuidelineWitness ==
    /\ solution.asked.status = "returned"
    /\ ~solution.asked.value
    /\ solution.context = [EmptyContext EXCEPT !.guidelines = <<"view">>]

\* ------------------------------------------------------------ C26
\* The collaborator calls an execution made: operation, goal id, event type.
CallsMade(c) ==
    [i \in DOMAIN cmds[c].calls |->
        <<cmds[c].calls[i].op, cmds[c].calls[i].id, cmds[c].calls[i].type>>]

\* The calls of a chained add of goal N after goal X, in the order of the code.
ChainedCallOrder(N, X) ==
    <<<<"append", N, GoalAddedEventType>>,
      <<"publish", N, GoalAddedEventType>>,
      <<"findById", X, "none">>,
      <<"readStream", X, "none">>,
      <<"append", X, GoalUpdatedEventType>>,
      <<"publish", X, GoalUpdatedEventType>>>>

\* The update events an execution appended to a stream.
UpdatesOf(c, id) ==
    {e \in EventsOf(c) : e.streamId = id /\ e.type = GoalUpdatedEventType}

\* C26: a chained execute that returned called its collaborators in exactly
\* this order: append(added), publish(added), findById(previous),
\* readStream(previous), then (rehydrate and update, between the read and
\* the append) append(updated), publish(updated); the update was applied to
\* a history read from the store during this command: the history is the
\* previous goal's stream up to the update event, which links the new goal.
ChainedCallsInOrder ==
    \A c \in DOMAIN cmds :
        (cmds[c].pc = "done" /\ Names(cmds[c].command.previousGoalId)) =>
            LET X == cmds[c].command.previousGoalId
                N == cmds[c].goalId
                history == cmds[c].history
            IN /\ CallsMade(c) = ChainedCallOrder(N, X)
               /\ \A i \in DOMAIN cmds[c].calls : cmds[c].calls[i].result \in {"ok", "found"}
               /\ Len(streams[X]) > Len(history)
               /\ history = SubSeq(streams[X], 1, Len(history))
               /\ UpdatesOf(c, X) = {streams[X][Len(history) + 1]}
               /\ PayloadValue(streams[X][Len(history) + 1], "nextGoalId") = N

\* C26 witness: a chained add returned after it read a history of two
\* events, the second one committed by an overlapping chained add.
ChainedCallsWitness ==
    \E c \in DOMAIN cmds :
        /\ cmds[c].pc = "done"
        /\ Names(cmds[c].command.previousGoalId)
        /\ Len(cmds[c].calls) = 6
        /\ Len(cmds[c].history) = 2
        /\ cmds[c].history[2].type = GoalUpdatedEventType

\* ------------------------------------------------------------ C27
\* C27: update is only applied to an aggregate rehydrated from a non-empty
\* history: every goal id for which the finder returns a summary has a
\* non-empty stream, and every execution that went on to append an update
\* event had read a non-empty history.
FoundGoalsHaveHistory ==
    /\ \A id \in GoalIds : FindById(goalViews, id).present => streams[id] # <<>>
    /\ \A c \in DOMAIN cmds :
         CallsOf(c, "append", GoalUpdatedEventType) # {} => cmds[c].history # <<>>

\* C27 witness: an execution appended an update event for a goal the finder
\* returned, after it read that goal's one event.
FoundGoalsWitness ==
    \E c \in DOMAIN cmds :
        /\ CallsOf(c, "append", GoalUpdatedEventType) # {}
        /\ Len(cmds[c].history) = 1
        /\ cmds[c].history[1].type = GoalAddedEventType
        /\ FindById(goalViews, cmds[c].command.previousGoalId).present

\* ------------------------------------------------------------ C28
\* Every event of the history is of a type the aggregate knows and at the
\* version of its position.
InOrderAndRecognized(history) ==
    \A i \in DOMAIN history :
        /\ history[i].version = i
        /\ history[i].type \in {GoalAddedEventType, GoalUpdatedEventType}

\* An execution read a history that rehydrate rejects and is about to
\* rehydrate it.
RehydratesCorrupt(c) ==
    /\ cmds[c].pc = "append updated"
    /\ ~InOrderAndRecognized(cmds[c].history)

\* C28: when rehydration of the previous goal fails during a chained add
\* (an unrecognized or out-of-order event in the history read), the command
\* fails with CorruptHistoryError, no goal-updated event is appended or
\* published, and the previous goal's stream is left unchanged.
CorruptHistoryStopsChaining ==
    /\ [][\A c \in DOMAIN cmds :
            (RehydratesCorrupt(c) /\ cmds'[c] # cmds[c]) =>
                /\ cmds'[c].pc = "failed"
                /\ cmds'[c].error = "CorruptHistoryError"
                /\ cmds'[c].calls = cmds[c].calls
                /\ streams' = streams
                /\ log' = log
                /\ published' = published]_vars
    /\ [](\A c \in DOMAIN cmds :
            cmds[c].error = "CorruptHistoryError" =>
                /\ cmds[c].pc = "failed"
                /\ UpdatesOf(c, cmds[c].command.previousGoalId) = {}
                /\ \A e \in PublishedOf(c) : e.type # GoalUpdatedEventType)

\* C28 witness: a chained add failed with CorruptHistoryError on a history
\* of two events read out of order; the previous goal's stream still holds
\* its two events and the new goal's added event is committed.
CorruptHistoryWitness ==
    \E c \in DOMAIN cmds :
        /\ cmds[c].error = "CorruptHistoryError"
        /\ Len(cmds[c].history) = 2
        /\ cmds[c].history[1].version = 2
        /\ Len(streams[cmds[c].command.previousGoalId]) = 2
        /\ Len(streams[cmds[c].goalId]) = 1

\* ------------------------------------------------------------ C29
\* The executions that returned after chaining to X.
ReturnedChainedTo(X) ==
    {c \in DOMAIN cmds : cmds[c].pc = "done" /\ cmds[c].command.previousGoalId = X}

\* Why a chained add fails: a collaborator threw, the finder had no such
\* goal, a collaborator was not injected, or the history read was corrupt.
FailedForAKnownReason(c) ==
    \/ cmds[c].error \in {"ValidationError", "ConfigurationError", "NotFound",
                          "CorruptHistoryError"}
    \/ /\ cmds[c].calls # <<>>
       /\ CallThrew(cmds[c].calls[Len(cmds[c].calls)])

\* C29: when several adds return in sequence with the same previousGoalId
\* X, each of them appended exactly one goal-updated event to stream X, X
\* rehydrates to nextGoalId = the id the most recent one returned, and no
\* chained add fails because X already has a nextGoalId: a failure is always
\* that of a collaborator, of the existence check or of rehydration.
RepeatedChainingOverwrites ==
    /\ [][\A c \in DOMAIN cmds :
            (ReturnsNow(c) /\ Names(cmds[c].command.previousGoalId)) =>
                LET X == cmds[c].command.previousGoalId
                    mine == {l.event : l \in {a \in Range(log') : a.cmd = c}}
                IN /\ Cardinality({e \in mine : e.streamId = X}) = 1
                   /\ \A e \in mine : e.streamId = X => e.type = GoalUpdatedEventType
                   /\ GoalRehydrate(X, streams'[X]).fields["nextGoalId"] = cmds[c].goalId]_vars
    /\ [](\A c \in DOMAIN cmds :
            /\ cmds[c].pc = "failed" => FailedForAKnownReason(c)
            /\ (Names(cmds[c].command.previousGoalId) /\ cmds[c].pc = "done") =>
                  Cardinality(UpdatesOf(c, cmds[c].command.previousGoalId)) = 1)

\* C29 witness: two adds chained to the first goal returned one after the
\* other; its stream holds two goal-updated events and it rehydrates to the
\* id of the second add.
RepeatedChainingWitness ==
    /\ Len(cmds) = 3
    /\ ReturnedChainedTo(randomUUID(1)) = {2, 3}
    /\ Len(streams[randomUUID(1)]) = 3
    /\ GoalRehydrate(randomUUID(1),
                     SubSeq(streams[randomUUID(1)], 1, 2)).fields["nextGoalId"] = randomUUID(2)
    /\ GoalRehydrate(randomUUID(1), streams[randomUUID(1)]).fields["nextGoalId"] = randomUUID(3)

\* ------------------------------------------------------------ C31
\* The matcher types of a SessionStart list, and the first matcher of a type.
TypesOf(matchers) == {matchers[i].matcher : i \in DOMAIN matchers}
FirstOfType(matchers, k) ==
    \A j \in DOMAIN matchers : matchers[j].matcher = matchers[k].matcher => k <= j

\* A hooks list that names no command twice.
EachCommandOnce(hooks) ==
    \A i, j \in DOMAIN hooks : hooks[i] = hooks[j] => i = j

\* The settings a merge starts from: the file's, or {} when there is none.
ExistingOf(file) == IF file.exists THEN file.content.value ELSE EmptySettings

\* Every matcher type of N has a matcher in the result that holds every
\* command N lists for that type.
HoldsNewCommands(N, after) ==
    \A t \in TypesOf(N.matchers) :
        \E k \in DOMAIN after.matchers :
            /\ after.matchers[k].matcher = t
            /\ \A i \in DOMAIN N.matchers :
                 N.matchers[i].matcher = t =>
                    Commands(N.matchers[i].hooks) \subseteq Commands(after.matchers[k].hooks)

\* C31 as stated: after a successful merge of N into E the result holds, for
\* every matcher type of N, a matcher with every command N lists for it, and
\* every matcher of the result whose type occurs both in E and in N lists
\* each command at most once.
MergeDeduplicatesSharedTypes ==
    [][(MergeReturnsNow /\ merge.newSettings.sessionStartPresent) =>
          LET E == ExistingOf(files[GeminiSettingsPath])
              N == merge.newSettings
              after == files'[GeminiSettingsPath].content.value
          IN /\ HoldsNewCommands(N, after)
             /\ \A k \in DOMAIN after.matchers :
                  after.matchers[k].matcher \in TypesOf(E.matchers) \cap TypesOf(N.matchers)
                     => EachCommandOnce(after.matchers[k].hooks)]_vars

\* C31, amended: the matcher the merge rewrote is the first one of a type
\* that occurs both in E and in N; that matcher lists each command at most
\* once (a later matcher of the same type in E is left as it was), and for
\* every matcher type of N the result holds a matcher with every command N
\* lists for it.
MergeDeduplicatesTouched ==
    [][(MergeReturnsNow /\ merge.newSettings.sessionStartPresent) =>
          LET E == ExistingOf(files[GeminiSettingsPath])
              N == merge.newSettings
              after == files'[GeminiSettingsPath].content.value
          IN /\ HoldsNewCommands(N, after)
             /\ \A k \in DOMAIN after.matchers :
                  (/\ after.matchers[k].matcher \in
                         TypesOf(E.matchers) \cap TypesOf(N.matchers)
                   /\ FirstOfType(after.matchers, k))
                     => EachCommandOnce(after.matchers[k].hooks)]_vars

\* C31 witness: a merge returned on a settings.json whose startup matcher
\* listed the user's command twice; the matcher now lists it once, followed
\* by the new command.
MergeDeduplicatesWitness ==
    /\ Len(MergeCalls) = 1
    /\ MergeReturned(1)
    /\ MergeCalls[1].before.exists
    /\ MergeCalls[1].before.content.value.matchers =
         <<[matcher |-> "startup", hooks |-> <<"user command", "user command">>]>>
    /\ files[GeminiSettingsPath].content.value.matchers =
         <<[matcher |-> "startup", hooks |-> <<"user command", "jumbo session start">>]>>

\* ------------------------------------------------------------ C32
\* The text files the configurers manage, and those they only append to.
ManagedTexts == {CopilotInstructionsPath, CursorMdPath, CursorRulePath, GeminiMdPath}
AppendedTexts == {CopilotInstructionsPath, CursorMdPath, GeminiMdPath}

\* `part` occurs in `text`.
Contains(text, part) ==
    \E offset \in 0..Len(text) :
        /\ offset + Len(part) <= Len(text)
        /\ SubSeq(text, offset + 1, offset + Len(part)) = part

\* The file at `path` existed and its content, up to trailing whitespace,
\* is still in the file after the step.
KeepsPriorContent(path) ==
    files[path].exists =>
        /\ files'[path].exists
        /\ Contains(files'[path].content, TrimEnd(files[path].content))

\* An ensure step ends in this step of the behaviour and no fs call failed.
EnsureStepSucceeds ==
    /\ EnsureStepEnds
    /\ ~run'.ran[Len(run'.ran)].threw

WritesOf(kind) == {k \in DOMAIN banner.stdout : banner.stdout[k].kind = kind}

\* On a TTY the animation was played: every frame in order, the cursor-hide
\* sequence followed by the cursor-show sequence, the caller's content in
\* the final frame only.
BannerPlayedOnTTY ==
    (banner.status = "returned" /\ banner.isTTY) =>
        /\ Cardinality(WritesOf("frame")) = banner.totalFrames
        /\ \A h \in WritesOf("ESC[?25l") :
             \E v \in WritesOf("ESC[?25h") : h < v
        /\ \A k \in WritesOf("frame") :
             banner.stdout[k].lines =
                IF banner.stdout[k].frame = banner.totalFrames THEN banner.content
                ELSE <<>>

\* Off a TTY no frame is written and the static banner is.
BannerStaticOffTTY ==
    (banner.status = "returned" /\ ~banner.isTTY) =>
        /\ WritesOf("frame") = {}
        /\ WritesOf(getBannerLines.kind) # {}

\* C33: showAnimatedBanner plays the animation only when stdout is a TTY and
\* falls back to the static banner otherwise; on a TTY the cursor-hide
\* sequence is followed by the cursor-show sequence before it returns, and
\* the caller's content lines appear only in the final frame.
BannerAnimatesOrFallsBack == BannerPlayedOnTTY /\ BannerStaticOffTTY
====
